---- MODULE Spec2Model ----
(***************************************************************************)
(* Model of the monitoring engine of healthcheck-cli:                      *)
(*   - pkg/circuitbreaker/circuitbreaker.go  (the per-endpoint breaker)    *)
(*   - services.HealthCheckService           (ExecuteCheck, the retry      *)
(*     loop, MonitorEndpoint and the consumer of StartMonitoring)          *)
(* One monitor task probes one check; its URL keys one circuit breaker.    *)
(* Time is a discrete clock that advances while the goroutine is suspended.*)
(***************************************************************************)
EXTENDS Integers, Sequences, FiniteSets, TLC

\* ---------------------------------------------------------------- bounds
MaxTicks == 3            \* probe occurrences a monitor task starts
MaxTime == 3             \* last instant of the clock
MaxAttemptsCfg == 2      \* largest retry.attempts tried
MaxFailuresCfg == 2      \* largest max_failures tried
MaxTimeoutCfg == 1       \* the breaker timeout tried (clock units)
MaxThresholdCfg == 2     \* largest success_threshold tried
MaxUnread == 11          \* probe occurrences started when nobody reads
NumChecks == 2           \* checks given to StartMonitoring
MaxFleetTicks == 1       \* ticks those tasks serve, all together
MaxBatch == 2            \* most checks given to ExecuteChecks
MaxCooldown == 2         \* the notification cooldown tried (clock units)
NumSenders == 2          \* goroutines that call Manager.Notify
MaxCalls == 3            \* calls of Notify those goroutines make, in all
MaxSaves == 3            \* calls of MemoryStorage.SaveResult
MaxAge == 2              \* largest olderThan given to CleanupOldData
MaxAutoSaves == 2        \* ticks the auto-save worker serves
MaxDuration == 2         \* longest response time of an HTTP request
MaxCleanTicks == 2       \* ticks of the cleanup ticker
NumCallers == 2          \* goroutines calling Execute on one breaker
MaxExecutes == 4         \* calls of Execute, all together
MaxRows == 2             \* results saved before the stores are queried
MaxLimit == 2            \* largest limit given to GetServiceHistory
NumLookers == 2          \* goroutines looking a key up
MaxRemovals == 1         \* calls of RemoveBreaker and RemoveLimit

\* ------------------------------------------------------- program constants
ResultsChanCap == 10     \* make(chan types.Result, 10)
ZeroTime == -1           \* the zero time.Time (before every instant)
maxResults == 20         \* MemoryStorage.maxResults (10000), scaled by 1/500

VARIABLES
    check,          \* types.CheckConfig: [Attempts]
    config,         \* circuitbreaker.Config of the manager
    circuitBreakers,\* "nil" (service has no manager) or "set"
    rateLimiter,    \* TRUE: an enabled limiter; FALSE: nil or disabled
    breaker,        \* Manager.breakers[check.URL]: NoBreaker or the breaker
    now,            \* the clock read by time.Now()
    cancelled,      \* ctx.Done() is closed
    pc,             \* position of the monitor goroutine
    attempt,        \* loop variable of ExecuteCheck
    result,         \* local variable result of ExecuteCheck
    ticks,          \* probe occurrences started so far
    storage,        \* results passed to storage.SaveResult, in order
    notified,       \* results handed to notifier.Notify, in order
    resultsChan,    \* buffered channel of MonitorEndpoint
    chanClosed,     \* close(resultsChan) has run
    tick,           \* history of the current probe occurrence
    hist,           \* history across probe occurrences
    tickerC,        \* ticker.C (capacity 1) holds a tick
    observer,       \* TRUE: the caller of MonitorEndpoint reads resultsChan
    checks,         \* argument of StartMonitoring: [Name, Interval, Attempts]
    monitor,        \* per check: the goroutine of MonitorEndpoint
    consumer,       \* per check: the goroutine of StartMonitoring
    returned,       \* what StartMonitoring has returned, or "running"
    batch,          \* one call of ExecuteChecks
    manager,        \* notifications.Manager
    call,           \* history of the calls of Manager.Notify
    senders,        \* the goroutines inside Manager.Notify
    memory,         \* storage.MemoryStorage
    file,           \* the files at MemoryStorage.path (f) and path + ".tmp"
    savers,         \* the goroutines inside MemoryStorage.saveToFile
    journal,        \* history of the calls of the storage
    http,           \* one call of HTTPChecker.Check: its inputs and result
    ssl,            \* one call of SSLChecker.Check: its inputs and result
    cleaner,        \* the goroutine of the periodic cleanup
    requests,       \* the goroutines inside circuitBreaker.Execute
    query,          \* the stores queried side by side and what they answer
    lookups         \* the per-key maps and the goroutines looking a key up

vars == <<check, config, circuitBreakers, rateLimiter, breaker, now,
          cancelled, pc, attempt, result, ticks, storage, notified,
          resultsChan, chanClosed, tick, hist, tickerC, observer,
          checks, monitor, consumer, returned, batch, manager, call,
          senders, memory, file, savers, journal, http,
          ssl, cleaner, requests, query, lookups>>

\* the state of the notification manager
notifierVars == <<manager, call>>

\* the state of concurrent calls of Manager.Notify
senderVars == <<senders>>

\* the state of the in-memory storage and of the application holding it
storeVars == <<memory, file, savers, journal>>

\* the state of the HTTP checker
httpVars == <<http>>

\* the state of the components that are not part of the service
sideVars == <<senderVars, storeVars, httpVars>>

\* the state of the components that are looked at one at a time
otherVars == <<ssl, cleaner, requests, query, lookups>>

\* the state of StartMonitoring
fleetVars == <<checks, monitor, consumer, returned>>

\* the state of the service's other entry points
extVars == <<fleetVars, batch, notifierVars, sideVars,
    otherVars>>

\* the state of the single MonitorEndpoint goroutine, but the context
engineVars ==
    <<check, config, circuitBreakers, rateLimiter, breaker, now, pc, attempt,
      result, ticks, storage, notified, resultsChan, chanClosed, tick, hist,
      tickerC, observer>>

\* what no step of StartMonitoring and its goroutines touches
nonFleetVars == <<engineVars, batch, notifierVars, sideVars,
    otherVars>>

\* what no step of ExecuteChecks and its goroutines touches
nonBatchVars == <<engineVars, fleetVars, notifierVars, sideVars,
    otherVars>>

\* what no step of the notification manager touches
nonNotifierVars ==
    <<check, config, circuitBreakers, rateLimiter, breaker, cancelled, pc,
      attempt, result, ticks, storage, notified, resultsChan, chanClosed,
      tick, hist, tickerC, observer, fleetVars, batch, sideVars,
    otherVars>>

\* no notification manager, no call of Notify
NoManager == [config |-> <<>>, emailNotifier |-> FALSE,
              discordNotifier |-> FALSE, lastNotification |-> <<>>]
NoCall == [made |-> FALSE]

\* none of the components that are looked at one at a time
OtherIdle ==
    /\ ssl = <<>>
    /\ cleaner = <<>>
    /\ requests = <<>>
    /\ query = <<>>
    /\ lookups = <<>>

\* no goroutine in Notify, no storage, no call of the HTTP checker
SideIdle ==
    /\ OtherIdle
    /\ senders = <<>>
    /\ memory = <<>>
    /\ file = <<>>
    /\ savers = <<>>
    /\ journal = <<>>
    /\ http = <<>>

\* no monitor task, no StartMonitoring, no ExecuteChecks
ServiceIdle ==
    /\ checks = <<>>
    /\ monitor = <<>>
    /\ consumer = <<>>
    /\ returned = "running"
    /\ batch = [checks |-> <<>>, worker |-> <<>>, resultsChan |-> <<>>,
                errorsChan |-> <<>>, pc |-> "off", results |-> <<>>,
                err |-> <<>>]
    /\ check = [Attempts |-> 1]
    /\ config = [Enabled |-> FALSE, MaxFailures |-> 1, Timeout |-> 1,
                 SuccessThreshold |-> 1]
    /\ circuitBreakers = "nil"
    /\ rateLimiter = FALSE
    /\ breaker = [state |-> "NONE"]
    /\ pc = "initial"
    /\ attempt = 0
    /\ result = [Status |-> "UP", Error |-> "", ResponseTime |-> 0,
                 probe |-> 0]
    /\ ticks = 0
    /\ storage = <<>>
    /\ notified = <<>>
    /\ resultsChan = <<>>
    /\ chanClosed = FALSE
    /\ tick = [exec |-> 0, recorded |-> 0, rejected |-> FALSE]
    /\ hist = [failStreak |-> 0, streak |-> 0, hoSucc |-> 0,
               failedAt |-> ZeroTime, reopens |-> 0]
    /\ tickerC = FALSE
    /\ observer = TRUE

\* ExecuteChecks has not been called
NoBatch ==
    [checks |-> <<>>, worker |-> <<>>, resultsChan |-> <<>>,
     errorsChan |-> <<>>, pc |-> "off", results |-> <<>>, err |-> <<>>]

\* ------------------------------------------------------------ types.go
HealthyStatuses == {"UP", "SLOW"}
\* the statuses checker.Check is made to return: one healthy, one not
CheckerStatuses == {"UP", "DOWN"}

IsHealthy(r) == r.Status \in HealthyStatuses

\* the zero value types.Result{} (Status 0 is StatusUp)
ZeroResult == [Status |-> "UP", Error |-> "", ResponseTime |-> 0, probe |-> 0]

\* what checker.Check returns for probe occurrence p with status s
CheckerResult(s, p) ==
    [Status |-> s,
     Error |-> IF s \in HealthyStatuses THEN "" ELSE "check failed",
     ResponseTime |-> 1,
     probe |-> p]

\* the result ExecuteCheck builds when the breaker is open
SyntheticResult(p) ==
    [Status |-> "DOWN", Error |-> "circuit breaker is OPEN",
     ResponseTime |-> 0, probe |-> p]

\* ---------------------------------------------------- circuitbreaker.go
NoBreaker == [state |-> "NONE"]

New(t) ==
    [state |-> "CLOSED", failures |-> 0, successes |-> 0,
     consecutiveSuccesses |-> 0, totalRequests |-> 0,
     lastFailureTime |-> ZeroTime, lastSuccessTime |-> ZeroTime,
     lastStateChange |-> t]

GetBreaker(b, t) == IF b = NoBreaker THEN New(t) ELSE b

\* beforeRequest counting a rejection as one more failure
beforeRequest_CountsRejection(b, cfg, t) ==
    LET b1 == [b EXCEPT !.totalRequests = @ + 1] IN
    CASE b.state = "CLOSED" -> [cb |-> b1, err |-> "nil"]
      [] b.state = "OPEN" ->
            IF t - b.lastStateChange > cfg.Timeout
            THEN [cb |-> [b1 EXCEPT !.state = "HALF_OPEN",
                                    !.consecutiveSuccesses = 0,
                                    !.lastStateChange = t],
                  err |-> "nil"]
            ELSE [cb |-> [b1 EXCEPT !.failures = @ + 1], err |-> "open"]
      [] b.state = "HALF_OPEN" -> [cb |-> b1, err |-> "nil"]

beforeRequest(b, cfg, t) ==
    LET b1 == [b EXCEPT !.totalRequests = @ + 1] IN
    CASE b.state = "CLOSED" -> [cb |-> b1, err |-> "nil"]
      [] b.state = "OPEN" ->
            IF t - b.lastStateChange > cfg.Timeout
            THEN [cb |-> [b1 EXCEPT !.state = "HALF_OPEN",
                                    !.consecutiveSuccesses = 0,
                                    !.lastStateChange = t],
                  err |-> "nil"]
            ELSE [cb |-> b1, err |-> "open"]
      [] b.state = "HALF_OPEN" -> [cb |-> b1, err |-> "nil"]

\* onSuccess closing the breaker on any success, whatever the threshold
onSuccess_CloseOnFirst(b, cfg, t) ==
    LET b1 == [b EXCEPT !.successes = @ + 1,
                        !.consecutiveSuccesses = @ + 1,
                        !.lastSuccessTime = t] IN
    CASE b1.state = "HALF_OPEN" ->
            [b1 EXCEPT !.state = "CLOSED", !.failures = 0,
                       !.lastStateChange = t]
      [] b1.state = "CLOSED" -> [b1 EXCEPT !.failures = 0]
      [] OTHER -> b1

onSuccess(b, cfg, t) ==
    LET b1 == [b EXCEPT !.successes = @ + 1,
                        !.consecutiveSuccesses = @ + 1,
                        !.lastSuccessTime = t] IN
    CASE b1.state = "HALF_OPEN" ->
            IF b1.consecutiveSuccesses >= cfg.SuccessThreshold
            THEN [b1 EXCEPT !.state = "CLOSED", !.failures = 0,
                            !.lastStateChange = t]
            ELSE b1
      [] b1.state = "CLOSED" -> [b1 EXCEPT !.failures = 0]
      [] OTHER -> b1

\* onFailure re-opening from HALF_OPEN without a new state-change timestamp
onFailure_KeepStamp(b, cfg, t) ==
    LET b1 == [b EXCEPT !.failures = @ + 1,
                        !.consecutiveSuccesses = 0,
                        !.lastFailureTime = t] IN
    CASE b1.state = "CLOSED" ->
            IF b1.failures >= cfg.MaxFailures
            THEN [b1 EXCEPT !.state = "OPEN", !.lastStateChange = t]
            ELSE b1
      [] b1.state = "HALF_OPEN" -> [b1 EXCEPT !.state = "OPEN"]
      [] OTHER -> b1

\* onFailure opening only when failures exceed max_failures
onFailure_Strict(b, cfg, t) ==
    LET b1 == [b EXCEPT !.failures = @ + 1,
                        !.consecutiveSuccesses = 0,
                        !.lastFailureTime = t] IN
    CASE b1.state = "CLOSED" ->
            IF b1.failures > cfg.MaxFailures
            THEN [b1 EXCEPT !.state = "OPEN", !.lastStateChange = t]
            ELSE b1
      [] b1.state = "HALF_OPEN" ->
            [b1 EXCEPT !.state = "OPEN", !.lastStateChange = t]
      [] OTHER -> b1

onFailure(b, cfg, t) ==
    LET b1 == [b EXCEPT !.failures = @ + 1,
                        !.consecutiveSuccesses = 0,
                        !.lastFailureTime = t] IN
    CASE b1.state = "CLOSED" ->
            IF b1.failures >= cfg.MaxFailures
            THEN [b1 EXCEPT !.state = "OPEN", !.lastStateChange = t]
            ELSE b1
      [] b1.state = "HALF_OPEN" ->
            [b1 EXCEPT !.state = "OPEN", !.lastStateChange = t]
      [] OTHER -> b1

afterRequest(b, cfg, failed, t) ==
    IF failed THEN onFailure(b, cfg, t) ELSE onSuccess(b, cfg, t)

\* Reset leaving the failure count as it is
Reset_KeepFailures(b, t) ==
    [b EXCEPT !.state = "CLOSED", !.successes = 0,
              !.consecutiveSuccesses = 0, !.lastStateChange = t]

Reset(b, t) ==
    [b EXCEPT !.state = "CLOSED", !.failures = 0, !.successes = 0,
              !.consecutiveSuccesses = 0, !.lastStateChange = t]

\* ----------------------------------------------------------- the engine
BreakerOn == circuitBreakers = "set" /\ config.Enabled

\* maxAttempts of ExecuteCheck: only 0 is replaced by 1
MaxAttemptsOf(c) == IF c.Attempts = 0 THEN 1 ELSE c.Attempts

\* "if result.IsHealthy() || attempt >= maxAttempts { break }", else sleep
AfterAttempt(r, a, c) ==
    IF IsHealthy(r) \/ a >= MaxAttemptsOf(c) THEN "store" ELSE "sleep"

\* SaveResult writing the record twice
SaveResult_Twice(st, r) == Append(Append(st, r), r)

\* s.storage.SaveResult(result): the store receives the record; an error it
\* returns is only logged and changes nothing in the engine
SaveResult(st, r) == Append(st, r)

NewTick ==
    [exec |-> 0, calls |-> 0, recorded |-> 0, rejected |-> FALSE,
     afterReject |-> 0, slept |-> 0, saves |-> 0, stored |-> 0,
     sent |-> 0, handed |-> 0, armed |-> FALSE, admitted |-> FALSE]

\* circuitbreaker.DisabledConfig()
DisabledConfig ==
    [MaxFailures |-> 0, Timeout |-> 0, SuccessThreshold |-> 0,
     Enabled |-> FALSE]

\* the validated enabled configurations tried (the smallest and the largest
\* max_failures and success_threshold), and the disabled one
Configs ==
    [MaxFailures : {1, MaxFailuresCfg}, Timeout : {MaxTimeoutCfg},
     SuccessThreshold : {1, MaxThresholdCfg}, Enabled : {TRUE}]
    \cup {DisabledConfig}

\* the retry.attempts tried: negative, zero, one and the largest
AttemptsCfgs == {-1, 0, 1, MaxAttemptsCfg}

Init ==
    /\ SideIdle
    /\ check \in [Attempts : AttemptsCfgs]
    /\ config \in Configs
    /\ circuitBreakers \in {"nil", "set"}
    /\ circuitBreakers = "nil" => config = DisabledConfig
    /\ rateLimiter \in BOOLEAN
    /\ breaker = NoBreaker
    /\ now = 0
    /\ cancelled = FALSE
    /\ pc = "initial"
    /\ attempt = 0
    /\ result = ZeroResult
    /\ ticks = 0
    /\ storage = <<>>
    /\ notified = <<>>
    /\ resultsChan = <<>>
    /\ chanClosed = FALSE
    /\ tick = NewTick
    /\ hist = [failStreak |-> 0, streak |-> 0, hoSucc |-> 0,
               failedAt |-> ZeroTime, reopens |-> 0]
    /\ tickerC = FALSE
    /\ observer = TRUE
    /\ checks = <<>>
    /\ monitor = <<>>
    /\ consumer = <<>>
    /\ returned = "running"
    /\ batch = NoBatch
    /\ manager = NoManager
    /\ call = NoCall

cfgVars == <<check, config, circuitBreakers, rateLimiter, observer>>

\* the clock advances while the goroutine is suspended: waiting for the
\* ticker or the rate limiter, in checker.Check, or in the retry delay
Clock ==
    /\ now < MaxTime
    /\ pc \in {"idle", "wait", "check", "sleep"}
    /\ now' = now + 1
    /\ UNCHANGED <<cfgVars, extVars, tickerC,
                   breaker, cancelled, pc, attempt, result, ticks,
                   storage, notified, resultsChan, chanClosed, tick, hist>>

\* the root context is cancelled
Cancel ==
    /\ ~cancelled
    /\ cancelled' = TRUE
    /\ UNCHANGED <<cfgVars, extVars, tickerC,
                   breaker, now, pc, attempt, result, ticks,
                   storage, notified, resultsChan, chanClosed, tick, hist>>

\* ExecuteCheck is entered: the initial check, or a tick of the ticker
BeginProbe ==
    /\ ticks < (IF observer THEN MaxTicks ELSE MaxUnread)
    /\ ticks' = ticks + 1
    /\ pc' = "wait"
    /\ result' = ZeroResult
    /\ attempt' = 0
    /\ tick' = NewTick
    /\ UNCHANGED <<cfgVars, extVars, breaker, now, cancelled, storage,
                   notified, resultsChan, chanClosed, hist>>

\* time.NewTicker(check.Interval), then "Perform initial check"
InitialCheck ==
    /\ pc = "initial"
    /\ BeginProbe
    /\ UNCHANGED tickerC

\* the ticker's period has passed: the tick is put in ticker.C, or dropped
\* when ticker.C still holds the previous one (ticks that no probe
\* occurrence within the bound could serve are left out)
TickerFire ==
    /\ pc \notin {"initial", "done"}
    /\ ticks < (IF observer THEN MaxTicks ELSE MaxUnread)
    /\ ~tickerC
    /\ tickerC' = TRUE
    /\ UNCHANGED <<cfgVars, extVars, breaker, now, cancelled, pc, attempt,
                   result, ticks, storage, notified, resultsChan, chanClosed,
                   tick, hist>>

\* a tick received wherever the goroutine is
Tick_Eager ==
    /\ tickerC
    /\ BeginProbe
    /\ tickerC' = FALSE

\* "case <-ticker.C:" of the monitoring loop
Tick ==
    /\ pc = "idle"
    /\ tickerC
    /\ BeginProbe
    /\ tickerC' = FALSE

\* "case <-ctx.Done(): return" of the monitoring loop, with the deferred close
LoopCancelled ==
    /\ pc = "idle"
    /\ cancelled
    /\ pc' = "done"
    /\ chanClosed' = TRUE
    /\ UNCHANGED <<cfgVars, extVars, tickerC,
                   breaker, now, cancelled, attempt, result, ticks,
                   storage, notified, resultsChan, tick, hist>>

\* rateLimiter.Wait returns nil: maxAttempts is set and the loop starts
RateLimitPass ==
    /\ pc = "wait"
    /\ ~rateLimiter \/ ~cancelled
    /\ pc' = "loop"
    /\ attempt' = 1
    /\ UNCHANGED <<cfgVars, extVars, tickerC,
                   breaker, now, cancelled, result, ticks, storage,
                   notified, resultsChan, chanClosed, tick, hist>>

\* rateLimiter.Wait returns the context's error: ExecuteCheck returns it
RateLimitCancelled ==
    /\ pc = "wait"
    /\ rateLimiter /\ cancelled
    /\ pc' = "idle"
    /\ UNCHANGED <<cfgVars, extVars, tickerC,
                   breaker, now, cancelled, attempt, result, ticks,
                   storage, notified, resultsChan, chanClosed, tick, hist>>

\* "attempt <= maxAttempts" is false: the loop is left
LoopExit ==
    /\ pc = "loop"
    /\ attempt > MaxAttemptsOf(check)
    /\ pc' = "store"
    /\ UNCHANGED <<cfgVars, extVars, tickerC,
                   breaker, now, cancelled, attempt, result, ticks,
                   storage, notified, resultsChan, chanClosed, tick, hist>>

\* the select at the head of the loop body finds ctx.Done()
AttemptCancelled ==
    /\ pc = "loop"
    /\ attempt <= MaxAttemptsOf(check)
    /\ cancelled
    /\ pc' = "idle"
    /\ UNCHANGED <<cfgVars, extVars, tickerC,
                   breaker, now, cancelled, attempt, result, ticks,
                   storage, notified, resultsChan, chanClosed, tick, hist>>

\* the select falls through: breaker.Execute up to the call of fn,
\* or the direct call when the service has no breaker manager
AttemptStart ==
    /\ pc = "loop"
    /\ attempt <= MaxAttemptsOf(check)
    /\ ~cancelled
    /\ IF ~BreakerOn
       THEN /\ pc' = "check"
            /\ breaker' = IF circuitBreakers = "set"
                          THEN GetBreaker(breaker, now) ELSE breaker
            /\ UNCHANGED <<result, tick, hist>>
       ELSE LET b == GetBreaker(breaker, now)
                r == beforeRequest(b, config, now)
                first == tick.calls = 0
                t1 == [tick EXCEPT
                         !.calls = @ + 1,
                         !.afterReject = IF tick.rejected THEN @ + 1 ELSE @,
                         !.armed = IF first
                                   THEN /\ hist.failStreak >= config.MaxFailures
                                        /\ now - b.lastStateChange < config.Timeout
                                   ELSE @,
                         !.admitted = IF first THEN r.err = "nil" ELSE @]
            IN  /\ breaker' = r.cb
                /\ IF r.err = "nil"
                   THEN /\ pc' = "check"
                        /\ tick' = t1
                        /\ hist' = IF b.state = "OPEN"
                                   THEN [hist EXCEPT !.hoSucc = 0] ELSE hist
                        /\ UNCHANGED result
                   ELSE /\ result' = SyntheticResult(ticks)
                        /\ pc' = AfterAttempt(SyntheticResult(ticks), attempt, check)
                        /\ tick' = [t1 EXCEPT !.rejected = TRUE]
                        /\ UNCHANGED hist
    /\ UNCHANGED <<cfgVars, extVars, tickerC,
                   now, cancelled, attempt, ticks, storage, notified,
                   resultsChan, chanClosed>>

\* fn: checker.Check(check) returns, and afterRequest records the outcome
AttemptCheck ==
    /\ pc = "check"
    /\ \E s \in CheckerStatuses :
         LET r == CheckerResult(s, ticks) IN
         /\ result' = r
         /\ pc' = AfterAttempt(r, attempt, check)
         /\ IF BreakerOn
            THEN /\ breaker' = afterRequest(breaker, config, ~IsHealthy(r), now)
                 /\ tick' = [tick EXCEPT !.exec = @ + 1, !.recorded = @ + 1]
                 /\ hist' = [hist EXCEPT
                      !.streak = IF IsHealthy(r) THEN 0 ELSE @ + 1,
                      !.hoSucc = IF IsHealthy(r) /\ breaker.state = "HALF_OPEN"
                                 THEN @ + 1 ELSE @,
                      !.failedAt = IF IsHealthy(r) THEN @ ELSE now,
                      !.reopens = IF ~IsHealthy(r) /\ breaker.state = "HALF_OPEN"
                                  THEN @ + 1 ELSE @]
            ELSE /\ tick' = [tick EXCEPT !.exec = @ + 1]
                 /\ UNCHANGED <<breaker, hist>>
    /\ UNCHANGED <<cfgVars, extVars, tickerC,
                   now, cancelled, attempt, ticks, storage, notified,
                   resultsChan, chanClosed>>

\* "case <-time.After(delay)": the retry delay is over, attempt++
SleepDone ==
    /\ pc = "sleep"
    /\ pc' = "loop"
    /\ attempt' = attempt + 1
    /\ tick' = [tick EXCEPT !.slept = @ + 1]
    /\ UNCHANGED <<cfgVars, extVars, tickerC,
                   breaker, now, cancelled, result, ticks, storage,
                   notified, resultsChan, chanClosed, hist>>

\* "case <-ctx.Done()" during the retry delay
SleepCancelled ==
    /\ pc = "sleep"
    /\ cancelled
    /\ pc' = "idle"
    /\ UNCHANGED <<cfgVars, extVars, tickerC,
                   breaker, now, cancelled, attempt, result, ticks,
                   storage, notified, resultsChan, chanClosed, tick, hist>>

\* storage.SaveResult(result); ExecuteCheck returns result
Store ==
    /\ pc = "store"
    /\ storage' = SaveResult(storage, result)
    /\ tick' = [tick EXCEPT !.saves = @ + 1,
                            !.stored = @ + (Len(storage') - Len(storage))]
    /\ hist' = [hist EXCEPT
                  !.failStreak = IF IsHealthy(result) THEN 0 ELSE @ + 1]
    /\ pc' = "send"
    /\ UNCHANGED <<cfgVars, extVars, tickerC,
                   breaker, now, cancelled, attempt, result, ticks,
                   notified, resultsChan, chanClosed>>

\* "case resultsChan <- result"
Send ==
    /\ pc = "send"
    /\ Len(resultsChan) < ResultsChanCap
    /\ resultsChan' = Append(resultsChan, result)
    /\ tick' = [tick EXCEPT !.sent = @ + 1]
    /\ pc' = "notify"
    /\ UNCHANGED <<cfgVars, extVars, tickerC,
                   breaker, now, cancelled, attempt, result, ticks,
                   storage, notified, chanClosed, hist>>

\* "case <-ctx.Done(): return" of the send, with the deferred close
SendCancelled ==
    /\ pc = "send"
    /\ cancelled
    /\ pc' = "done"
    /\ chanClosed' = TRUE
    /\ UNCHANGED <<cfgVars, extVars, tickerC,
                   breaker, now, cancelled, attempt, result, ticks,
                   storage, notified, resultsChan, tick, hist>>

\* s.notifier.Notify(result); its error is only logged
Notify ==
    /\ pc = "notify"
    /\ notified' = Append(notified, result)
    /\ tick' = [tick EXCEPT !.handed = @ + 1]
    /\ pc' = "idle"
    /\ UNCHANGED <<cfgVars, extVars, tickerC,
                   breaker, now, cancelled, attempt, result, ticks,
                   storage, resultsChan, chanClosed, hist>>

\* "for range resultsChan" of StartMonitoring
Consume ==
    /\ observer
    /\ resultsChan # <<>>
    /\ resultsChan' = Tail(resultsChan)
    /\ UNCHANGED <<cfgVars, extVars, tickerC,
                   breaker, now, cancelled, pc, attempt, result,
                   ticks, storage, notified, chanClosed, tick, hist>>

Next ==
    \/ Clock
    \/ Cancel
    \/ TickerFire
    \/ InitialCheck
    \/ Tick
    \/ LoopCancelled
    \/ RateLimitPass
    \/ RateLimitCancelled
    \/ LoopExit
    \/ AttemptCancelled
    \/ AttemptStart
    \/ AttemptCheck
    \/ SleepDone
    \/ SleepCancelled
    \/ Store
    \/ Send
    \/ SendCancelled
    \/ Notify
    \/ Consume

Spec == Init /\ [][Next]_vars

\* MonitorEndpoint called directly by a caller that never reads the channel
\* it returns; one attempt per probe, no breaker manager
InitUnread ==
    /\ SideIdle
    /\ check = [Attempts |-> 1]
    /\ config = DisabledConfig
    /\ circuitBreakers = "nil"
    /\ rateLimiter \in BOOLEAN
    /\ breaker = NoBreaker
    /\ now = 0
    /\ cancelled = FALSE
    /\ pc = "initial"
    /\ attempt = 0
    /\ result = ZeroResult
    /\ ticks = 0
    /\ storage = <<>>
    /\ notified = <<>>
    /\ resultsChan = <<>>
    /\ chanClosed = FALSE
    /\ tick = NewTick
    /\ hist = [failStreak |-> 0, streak |-> 0, hoSucc |-> 0,
               failedAt |-> ZeroTime, reopens |-> 0]
    /\ tickerC = FALSE
    /\ observer = FALSE
    /\ checks = <<>>
    /\ monitor = <<>>
    /\ consumer = <<>>
    /\ returned = "running"
    /\ batch = NoBatch
    /\ manager = NoManager
    /\ call = NoCall

NextUnread ==
    \/ Cancel
    \/ TickerFire
    \/ InitialCheck
    \/ Tick
    \/ LoopCancelled
    \/ RateLimitPass
    \/ RateLimitCancelled
    \/ AttemptCancelled
    \/ AttemptStart
    \/ AttemptCheck
    \/ Store
    \/ Send
    \/ SendCancelled
    \/ Notify

SpecUnread == InitUnread /\ [][NextUnread]_vars

\* A monitor task whose storage may fail to write; one attempt per probe,
\* no breaker manager, StartMonitoring reading the channel. hist.lost counts
\* the writes that failed.
InitWriteFail ==
    /\ SideIdle
    /\ check = [Attempts |-> 1]
    /\ config = DisabledConfig
    /\ circuitBreakers = "nil"
    /\ rateLimiter \in BOOLEAN
    /\ breaker = NoBreaker
    /\ now = 0
    /\ cancelled = FALSE
    /\ pc = "initial"
    /\ attempt = 0
    /\ result = ZeroResult
    /\ ticks = 0
    /\ storage = <<>>
    /\ notified = <<>>
    /\ resultsChan = <<>>
    /\ chanClosed = FALSE
    /\ tick = NewTick
    /\ hist = [failStreak |-> 0, streak |-> 0, hoSucc |-> 0,
               failedAt |-> ZeroTime, reopens |-> 0, lost |-> 0]
    /\ tickerC = FALSE
    /\ observer = TRUE
    /\ checks = <<>>
    /\ monitor = <<>>
    /\ consumer = <<>>
    /\ returned = "running"
    /\ batch = NoBatch
    /\ manager = NoManager
    /\ call = NoCall

\* SaveResult returning an error that ExecuteCheck passes on to its caller,
\* which logs it and goes back to its loop
StoreFailed_ReturnsError ==
    /\ pc = "store"
    /\ tick' = [tick EXCEPT !.saves = @ + 1]
    /\ hist' = [hist EXCEPT
                  !.failStreak = IF IsHealthy(result) THEN 0 ELSE @ + 1,
                  !.lost = @ + 1]
    /\ pc' = "idle"
    /\ UNCHANGED <<cfgVars, extVars, tickerC,
                   breaker, now, cancelled, attempt, result, ticks,
                   storage, notified, resultsChan, chanClosed>>

\* s.storage.SaveResult(result) returns an error: nothing is stored, the
\* error is logged, ExecuteCheck returns result, nil
StoreFailed ==
    /\ pc = "store"
    /\ tick' = [tick EXCEPT !.saves = @ + 1]
    /\ hist' = [hist EXCEPT
                  !.failStreak = IF IsHealthy(result) THEN 0 ELSE @ + 1,
                  !.lost = @ + 1]
    /\ pc' = "send"
    /\ UNCHANGED <<cfgVars, extVars, tickerC,
                   breaker, now, cancelled, attempt, result, ticks,
                   storage, notified, resultsChan, chanClosed>>

NextWriteFail ==
    \/ Cancel
    \/ TickerFire
    \/ InitialCheck
    \/ Tick
    \/ LoopCancelled
    \/ RateLimitPass
    \/ RateLimitCancelled
    \/ AttemptCancelled
    \/ AttemptStart
    \/ AttemptCheck
    \/ Store
    \/ StoreFailed
    \/ Send
    \/ SendCancelled
    \/ Notify
    \/ Consume

SpecWriteFail == InitWriteFail /\ [][NextWriteFail]_vars

\* --------------------------------------------------- ExecuteChecks
\* the types s.checkers has a checker for, and one it has none for
CheckTypes == {"http", "ftp"}
SupportedTypes == {"http"}

BatchInputs ==
    UNION {[1..n -> [Name : {"a", "b"}, Type : CheckTypes, Attempts : {-1, 1}]]
             : n \in 0..MaxBatch}

\* fmt.Errorf("check %s failed: %w", c.Name, err) without the name
CheckError_Unnamed(c, cause) == [name |-> "", cause |-> cause]

\* fmt.Errorf("check %s failed: %w", c.Name, err)
CheckError(c, cause) == [name |-> c.Name, cause |-> cause]

\* ExecuteChecks is called: "go func(c)" for every check, or the error
\* "no checks provided"
InitChecks ==
    /\ SideIdle
    /\ \E cs \in BatchInputs :
         batch = [checks |-> cs,
                  worker |-> [i \in DOMAIN cs |-> "run"],
                  resultsChan |-> <<>>, errorsChan |-> <<>>,
                  pc |-> "wait", results |-> <<>>, err |-> <<>>]
    /\ checks = <<>>
    /\ monitor = <<>>
    /\ consumer = <<>>
    /\ returned = "running"
    /\ cancelled = FALSE
    /\ check = [Attempts |-> 1]
    /\ config = DisabledConfig
    /\ circuitBreakers = "nil"
    /\ rateLimiter \in BOOLEAN
    /\ breaker = NoBreaker
    /\ now = 0
    /\ pc = "initial"
    /\ attempt = 0
    /\ result = ZeroResult
    /\ ticks = 0
    /\ storage = <<>>
    /\ notified = <<>>
    /\ resultsChan = <<>>
    /\ chanClosed = FALSE
    /\ tick = NewTick
    /\ hist = [failStreak |-> 0, streak |-> 0, hoSucc |-> 0,
               failedAt |-> ZeroTime, reopens |-> 0]
    /\ tickerC = FALSE
    /\ observer = TRUE
    /\ manager = NoManager
    /\ call = NoCall

\* "if len(checks) == 0 { return nil, fmt.Errorf("no checks provided") }"
NoChecks ==
    /\ batch.pc = "wait"
    /\ batch.checks = <<>>
    /\ batch' = [batch EXCEPT !.pc = "returned",
                              !.err = <<[name |-> "", cause |-> "no checks"]>>]
    /\ UNCHANGED <<nonBatchVars, cancelled>>

\* goroutine i: ExecuteCheck returns an error, which is sent on errorsChan
\* with the check's name: no checker for the type, or the context's error
\* from rateLimiter.Wait or from the head of the attempt
WorkerError(i) ==
    /\ batch.pc = "wait"
    /\ i \in DOMAIN batch.worker
    /\ batch.worker[i] = "run"
    /\ LET c == batch.checks[i] IN
       /\ \/ c.Type \notin SupportedTypes
          \/ cancelled /\ (rateLimiter \/ MaxAttemptsOf(c) >= 1)
       /\ batch' = [batch EXCEPT
            !.worker[i] = "failed",
            !.errorsChan = Append(@,
                CheckError(c, IF c.Type \notin SupportedTypes
                              THEN "unsupported" ELSE "context"))]
    /\ UNCHANGED <<nonBatchVars, cancelled>>

\* goroutine i: ExecuteCheck returns a result, which is sent on resultsChan
\* (the zero result when the retry loop ran no attempt)
WorkerResult(i) ==
    /\ batch.pc = "wait"
    /\ i \in DOMAIN batch.worker
    /\ batch.worker[i] = "run"
    /\ LET c == batch.checks[i] IN
       /\ c.Type \in SupportedTypes
       /\ IF MaxAttemptsOf(c) >= 1 THEN ~cancelled
                                    ELSE ~rateLimiter \/ ~cancelled
       /\ \E st \in CheckerStatuses :
            batch' = [batch EXCEPT
              !.worker[i] = "ok",
              !.resultsChan = Append(@,
                  IF MaxAttemptsOf(c) >= 1
                  THEN [Name |-> c.Name, Status |-> st]
                  ELSE [Name |-> "", Status |-> "UP"])]
    /\ UNCHANGED <<nonBatchVars, cancelled>>

\* wg.Wait() returns; both channels are closed and read to the end;
\* "some checks failed: %v" of the errors, or nil
Collect ==
    /\ batch.pc = "wait"
    /\ batch.checks # <<>>
    /\ \A i \in DOMAIN batch.worker : batch.worker[i] # "run"
    /\ batch' = [batch EXCEPT !.pc = "returned",
                              !.results = batch.resultsChan,
                              !.err = batch.errorsChan]
    /\ UNCHANGED <<nonBatchVars, cancelled>>

NextChecks ==
    \/ Cancel
    \/ NoChecks
    \/ \E i \in 1..MaxBatch : WorkerError(i)
    \/ \E i \in 1..MaxBatch : WorkerResult(i)
    \/ Collect

SpecChecks == InitChecks /\ [][NextChecks]_vars

\* ------------------------------------------------- StartMonitoring
Names == {"a", "b"}

\* the goroutine of MonitorEndpoint before "go func()"
NoMonitor == [pc |-> "off", ticks |-> 0, ch |-> 0, closed |-> FALSE]

\* the ticks the first k monitor goroutines have served
RECURSIVE FleetTicks(_)
FleetTicks(k) == IF k = 0 THEN 0 ELSE FleetTicks(k - 1) + monitor[k].ticks

\* StartMonitoring has been called with NumChecks checks; the engine of
\* the single goroutine above is left at rest. The goroutines being alike,
\* the first check is named "a" and is the one whose interval may be zero
\* or whose attempts may be negative, the last is the one that may have the
\* same name, and any check between them is named "b".
InitMonitoring ==
    /\ SideIdle
    /\ checks \in [1..NumChecks ->
                     [Name : Names, Interval : {0, 1}, Attempts : {-1, 1}]]
    /\ checks[1].Name = "a"
    /\ checks[1].Interval = 0 => checks[1].Attempts = 1
    /\ \A i \in 2..NumChecks :
         /\ checks[i].Attempts = 1
         /\ checks[i].Interval = 1
         /\ i # NumChecks => checks[i].Name = "b"
    /\ monitor = [i \in 1..NumChecks |-> NoMonitor]
    /\ consumer = [i \in 1..NumChecks |-> "start"]
    /\ returned = "running"
    /\ batch = NoBatch
    /\ manager = NoManager
    /\ call = NoCall
    /\ cancelled = FALSE
    /\ check = [Attempts |-> 1]
    /\ config = DisabledConfig
    /\ circuitBreakers = "nil"
    /\ rateLimiter \in (IF checks[1].Attempts = 1 THEN {TRUE} ELSE BOOLEAN)
    /\ breaker = NoBreaker
    /\ now = 0
    /\ pc = "initial"
    /\ attempt = 0
    /\ result = ZeroResult
    /\ ticks = 0
    /\ storage = <<>>
    /\ notified = <<>>
    /\ resultsChan = <<>>
    /\ chanClosed = FALSE
    /\ tick = NewTick
    /\ hist = [failStreak |-> 0, streak |-> 0, hoSucc |-> 0,
               failedAt |-> ZeroTime, reopens |-> 0]
    /\ tickerC = FALSE
    /\ observer = TRUE

\* the step of monitor goroutine i from position from to position to
MonitorStep(i, from, to) ==
    /\ monitor[i].pc = from
    /\ monitor' = [monitor EXCEPT ![i].pc = to]
    /\ UNCHANGED <<nonFleetVars, cancelled, checks, consumer, returned>>

\* "resultsChan, err := s.MonitorEndpoint(ctx, c)" in the goroutine of
\* StartMonitoring: an error is logged and the goroutine returns; otherwise
\* the monitor goroutine is started and the channel is ranged over
Spawn(i) ==
    /\ consumer[i] = "start"
    /\ IF checks[i].Interval = 0
       THEN /\ consumer' = [consumer EXCEPT ![i] = "done"]
            /\ UNCHANGED monitor
       ELSE /\ consumer' = [consumer EXCEPT ![i] = "range"]
            /\ monitor' = [monitor EXCEPT ![i].pc = "initial"]
    /\ UNCHANGED <<nonFleetVars, cancelled, checks, returned>>

\* ExecuteCheck is entered for the initial check
MonitorInitial(i) == MonitorStep(i, "initial", "exec")

\* "case <-ticker.C:": ExecuteCheck is entered
MonitorTick(i) ==
    /\ monitor[i].pc = "idle"
    /\ FleetTicks(NumChecks) < MaxFleetTicks
    /\ monitor' = [monitor EXCEPT ![i].pc = "exec", ![i].ticks = @ + 1]
    /\ UNCHANGED <<nonFleetVars, cancelled, checks, consumer, returned>>

\* ExecuteCheck finds the context cancelled, in rateLimiter.Wait or at the
\* head of the first attempt, and returns its error, which is logged
MonitorExecCancelled(i) ==
    /\ cancelled
    /\ rateLimiter \/ MaxAttemptsOf(checks[i]) >= 1
    /\ MonitorStep(i, "exec", "idle")

\* checker.Check is called with the context live
MonitorProbe(i) ==
    /\ ~cancelled
    /\ MaxAttemptsOf(checks[i]) >= 1
    /\ MonitorStep(i, "exec", "probe")

\* the retry loop runs no attempt: ExecuteCheck returns the zero result
MonitorNoAttempt(i) ==
    /\ ~rateLimiter \/ ~cancelled
    /\ MaxAttemptsOf(checks[i]) < 1
    /\ MonitorStep(i, "exec", "send")

\* ExecuteCheck returns a result
MonitorResult(i) == MonitorStep(i, "probe", "send")

\* ExecuteCheck returns the context's error from a retry delay
MonitorProbeCancelled(i) ==
    /\ cancelled
    /\ MonitorStep(i, "probe", "idle")

\* "case resultsChan <- result", then s.notifier.Notify(result)
MonitorSend(i) ==
    /\ monitor[i].pc = "send"
    /\ monitor[i].ch < ResultsChanCap
    /\ monitor' = [monitor EXCEPT ![i].pc = "idle", ![i].ch = @ + 1]
    /\ UNCHANGED <<nonFleetVars, cancelled, checks, consumer, returned>>

\* the goroutine returning without the deferred close
MonitorReturn_NoClose(i, from) ==
    /\ cancelled
    /\ MonitorStep(i, from, "done")

\* "case <-ctx.Done(): return", from the send or from the monitoring loop,
\* with the deferred close(resultsChan)
MonitorReturn(i, from) ==
    /\ cancelled
    /\ monitor[i].pc = from
    /\ monitor' = [monitor EXCEPT ![i].pc = "done", ![i].closed = TRUE]
    /\ UNCHANGED <<nonFleetVars, cancelled, checks, consumer, returned>>

MonitorSendCancelled(i) == MonitorReturn(i, "send")

MonitorLoopCancelled(i) == MonitorReturn(i, "idle")

\* "for range resultsChan" receives a result
Range(i) ==
    /\ consumer[i] = "range"
    /\ monitor[i].ch > 0
    /\ monitor' = [monitor EXCEPT ![i].ch = @ - 1]
    /\ UNCHANGED <<nonFleetVars, cancelled, checks, consumer, returned>>

\* "for range resultsChan" ends: the channel is closed and empty; wg.Done()
RangeEnd(i) ==
    /\ consumer[i] = "range"
    /\ monitor[i].closed
    /\ monitor[i].ch = 0
    /\ consumer' = [consumer EXCEPT ![i] = "done"]
    /\ UNCHANGED <<nonFleetVars, cancelled, checks, monitor, returned>>

\* wg.Wait() returns: "return nil"
Return ==
    /\ returned = "running"
    /\ \A i \in 1..NumChecks : consumer[i] = "done"
    /\ returned' = "nil"
    /\ UNCHANGED <<nonFleetVars, cancelled, checks, monitor, consumer>>

NextMonitoring ==
    \/ Cancel
    \/ Return
    \/ \E i \in 1..NumChecks : Spawn(i)
    \/ \E i \in 1..NumChecks : MonitorInitial(i)
    \/ \E i \in 1..NumChecks : MonitorTick(i)
    \/ \E i \in 1..NumChecks : MonitorExecCancelled(i)
    \/ \E i \in 1..NumChecks : MonitorProbe(i)
    \/ \E i \in 1..NumChecks : MonitorNoAttempt(i)
    \/ \E i \in 1..NumChecks : MonitorResult(i)
    \/ \E i \in 1..NumChecks : MonitorProbeCancelled(i)
    \/ \E i \in 1..NumChecks : MonitorSend(i)
    \/ \E i \in 1..NumChecks : MonitorSendCancelled(i)
    \/ \E i \in 1..NumChecks : MonitorLoopCancelled(i)
    \/ \E i \in 1..NumChecks : Range(i)
    \/ \E i \in 1..NumChecks : RangeEnd(i)

SpecMonitoring == InitMonitoring /\ [][NextMonitoring]_vars

\* the steps of monitor goroutine i
MonitorNext(i) ==
    \/ MonitorInitial(i)
    \/ MonitorTick(i)
    \/ MonitorExecCancelled(i)
    \/ MonitorProbe(i)
    \/ MonitorNoAttempt(i)
    \/ MonitorResult(i)
    \/ MonitorProbeCancelled(i)
    \/ MonitorSend(i)
    \/ MonitorSendCancelled(i)
    \/ MonitorLoopCancelled(i)

\* the steps of goroutine i of StartMonitoring
ConsumerNext(i) == Spawn(i) \/ Range(i) \/ RangeEnd(i)

\* the Go scheduler runs every goroutine that can run (a probe ends within
\* its timeout), and a select with ctx.Done() ready, choosing at random
\* among its ready cases, picks it sooner or later
FairMonitoring ==
    /\ SpecMonitoring
    /\ WF_vars(Return)
    /\ \A i \in 1..NumChecks :
         /\ WF_vars(MonitorNext(i))
         /\ WF_vars(ConsumerNext(i))
         /\ SF_vars(MonitorLoopCancelled(i))

\* ------------------------------------------- notifications.Manager
\* the channels of the manager, in the order Notify goes through them
Channels == <<"email", "discord">>

\* the statuses of the results handed to Notify
NotifiedStatuses == {"UP", "DOWN"}

\* config.Notifications as far as the manager reads it: the global rules
\* and which channels are enabled
NotifierConfigs ==
    [OnSuccess : BOOLEAN, OnFailure : BOOLEAN, OnSlowResponse : {TRUE},
     Cooldown : {MaxCooldown}, Email : BOOLEAN, Discord : BOOLEAN]

NewManager(cfg) ==
    [config |-> cfg,
     emailNotifier |-> cfg.Email,
     discordNotifier |-> cfg.Discord,
     lastNotification |-> [n \in Names |-> ZeroTime]]

shouldNotify(m, r) ==
    CASE r.Status = "UP" -> m.config.OnSuccess
      [] r.Status = "DOWN" -> m.config.OnFailure
      [] r.Status = "SLOW" -> m.config.OnSlowResponse
      [] OTHER -> FALSE

\* the entry of name n missing is the entry ZeroTime
checkCooldown(m, n, t) ==
    IF m.lastNotification[n] = ZeroTime
    THEN TRUE
    ELSE t - m.lastNotification[n] >= m.config.Cooldown

\* the non-nil notifiers, in the order of Channels
Enabled(m) ==
    (IF m.emailNotifier THEN <<"email">> ELSE <<>>)
        \o (IF m.discordNotifier THEN <<"discord">> ELSE <<>>)

\* Manager.Notify(r) at time t, ok[c] telling whether the Send of channel c
\* succeeds: the manager afterwards, the channels whose Send was called,
\* the channel named by the error returned ("nil": no error), and whether
\* the call returned at "Notification ignored"
ManagerNotify(m, r, t, ok) ==
    IF ~shouldNotify(m, r) \/ ~checkCooldown(m, r.Name, t)
    THEN [manager |-> m, attempted |-> <<>>, err |-> "nil",
          ignored |-> TRUE]
    ELSE IF m.emailNotifier /\ ~ok["email"]
    THEN [manager |-> m, attempted |-> <<"email">>, err |-> "email",
          ignored |-> FALSE]
    ELSE IF m.discordNotifier /\ ~ok["discord"]
    THEN [manager |-> m, attempted |-> Enabled(m), err |-> "discord",
          ignored |-> FALSE]
    ELSE [manager |-> [m EXCEPT !.lastNotification[r.Name] = t],
          attempted |-> Enabled(m), err |-> "nil", ignored |-> FALSE]

\* the elements of the sequence q
Range_(q) == {q[k] : k \in DOMAIN q}

InitNotifier ==
    /\ SideIdle
    /\ manager \in {NewManager(cfg) : cfg \in NotifierConfigs}
    /\ call = [made |-> FALSE, delivered |-> [n \in Names |-> ZeroTime]]
    /\ now = 0
    /\ checks = <<>>
    /\ monitor = <<>>
    /\ consumer = <<>>
    /\ returned = "running"
    /\ batch = NoBatch
    /\ cancelled = FALSE
    /\ check = [Attempts |-> 1]
    /\ config = DisabledConfig
    /\ circuitBreakers = "nil"
    /\ rateLimiter = FALSE
    /\ breaker = NoBreaker
    /\ pc = "initial"
    /\ attempt = 0
    /\ result = ZeroResult
    /\ ticks = 0
    /\ storage = <<>>
    /\ notified = <<>>
    /\ resultsChan = <<>>
    /\ chanClosed = FALSE
    /\ tick = NewTick
    /\ hist = [failStreak |-> 0, streak |-> 0, hoSucc |-> 0,
               failedAt |-> ZeroTime, reopens |-> 0]
    /\ tickerC = FALSE
    /\ observer = TRUE

\* time passes between two calls of the manager
NotifierClock ==
    /\ now < MaxTime
    /\ now' = now + 1
    /\ UNCHANGED <<nonNotifierVars, manager, call>>

\* one call of Manager.Notify, from its first line to its return
NotifyCall ==
    \E n \in Names, st \in NotifiedStatuses,
       ok \in [Range_(Channels) -> BOOLEAN] :
        LET r == [Name |-> n, Status |-> st]
            o == ManagerNotify(manager, r, now, ok)
            sent == {c \in Range_(o.attempted) : ok[c]}
        IN  /\ manager' = o.manager
            /\ call' = [made |-> TRUE,
                        name |-> n,
                        within |-> /\ call.delivered[n] # ZeroTime
                                   /\ now - call.delivered[n]
                                        < manager.config.Cooldown,
                        enabled |-> Enabled(manager),
                        attempted |-> o.attempted,
                        sent |-> sent,
                        err |-> o.err,
                        updated |-> o.manager # manager,
                        delivered |-> IF sent = {} THEN call.delivered
                                      ELSE [call.delivered EXCEPT ![n] = now]]
            /\ UNCHANGED <<nonNotifierVars, now>>

\* Manager.UpdateConfig(cfg): the configuration is replaced and the
\* notifiers are made anew from it; lastNotification is kept. The new
\* configurations tried differ from the old one in the enabled channels.
UpdateConfig ==
    \E cfg \in NotifierConfigs :
        /\ cfg # manager.config
        /\ cfg.OnSuccess = manager.config.OnSuccess
        /\ cfg.OnFailure = manager.config.OnFailure
        /\ manager' = [manager EXCEPT !.config = cfg,
                                      !.emailNotifier = cfg.Email,
                                      !.discordNotifier = cfg.Discord]
        /\ UNCHANGED <<nonNotifierVars, now, call>>

NextNotifier ==
    \/ NotifierClock
    \/ NotifyCall
    \/ UpdateConfig

SpecNotifier == InitNotifier /\ [][NextNotifier]_vars

\* ------------------------------- notifications.Manager, the global rules
\* every types.Status
AllStatuses == {"UP", "DOWN", "SLOW", "ERROR", "WARNING"}

\* config.Notifications with every rule flag either way
RuleConfigs ==
    [OnSuccess : BOOLEAN, OnFailure : BOOLEAN, OnSlowResponse : BOOLEAN,
     OnRecovery : BOOLEAN, Cooldown : {MaxCooldown}, Email : BOOLEAN,
     Discord : {TRUE}]

\* call.unhealthy[n]: the latest result handed to Notify for name n was
\* not healthy
InitRules ==
    /\ SideIdle
    /\ manager \in {NewManager(cfg) : cfg \in RuleConfigs}
    /\ call = [made |-> FALSE, unhealthy |-> [n \in Names |-> FALSE]]
    /\ now = 0
    /\ checks = <<>>
    /\ monitor = <<>>
    /\ consumer = <<>>
    /\ returned = "running"
    /\ batch = NoBatch
    /\ cancelled = FALSE
    /\ check = [Attempts |-> 1]
    /\ config = DisabledConfig
    /\ circuitBreakers = "nil"
    /\ rateLimiter = FALSE
    /\ breaker = NoBreaker
    /\ pc = "initial"
    /\ attempt = 0
    /\ result = ZeroResult
    /\ ticks = 0
    /\ storage = <<>>
    /\ notified = <<>>
    /\ resultsChan = <<>>
    /\ chanClosed = FALSE
    /\ tick = NewTick
    /\ hist = [failStreak |-> 0, streak |-> 0, hoSucc |-> 0,
               failedAt |-> ZeroTime, reopens |-> 0]
    /\ tickerC = FALSE
    /\ observer = TRUE

\* one call of Manager.Notify with a result of any status
RuleCall ==
    \E n \in Names, st \in AllStatuses, ok \in [Range_(Channels) -> BOOLEAN] :
        LET r == [Name |-> n, Status |-> st]
            o == ManagerNotify(manager, r, now, ok)
        IN  /\ manager' = o.manager
            /\ call' = [made |-> TRUE,
                        name |-> n,
                        status |-> st,
                        cooled |-> checkCooldown(manager, n, now),
                        recovery |-> call.unhealthy[n] /\ st = "UP",
                        ignored |-> o.ignored,
                        attempted |-> o.attempted,
                        unhealthy |-> [call.unhealthy EXCEPT
                                         ![n] = ~IsHealthy(r)]]
            /\ UNCHANGED <<nonNotifierVars, now>>

NextRules ==
    \/ NotifierClock
    \/ RuleCall

SpecRules == InitRules /\ [][NextRules]_vars

\* ----------------------- notifications.Manager, called by several goroutines
\* Each monitor task calls Notify from its own goroutine. A call reads
\* lastNotification under the read lock (checkCooldown), calls the channels
\* with no lock held, and writes lastNotification under the write lock.
InitSenders ==
    /\ ServiceIdle
    /\ cancelled = FALSE
    /\ now = 0
    /\ manager \in {NewManager(cfg) : cfg \in
                      [OnSuccess : {FALSE}, OnFailure : {TRUE},
                       OnSlowResponse : {TRUE}, Cooldown : 1..MaxCooldown,
                       Email : {TRUE}, Discord : {FALSE}]}
    /\ call = [calls |-> 0, dispatched |-> [n \in Names |-> <<>>]]
    /\ senders = [g \in 1..NumSenders |-> [pc |-> "idle", name |-> "a"]]
    /\ memory = <<>>
    /\ file = <<>>
    /\ savers = <<>>
    /\ journal = <<>>
    /\ http = <<>>
    /\ OtherIdle

\* what no step of a caller of Notify touches
nonSenderVars ==
    <<check, config, circuitBreakers, rateLimiter, breaker, cancelled, pc,
      attempt, result, ticks, storage, notified, resultsChan, chanClosed,
      tick, hist, tickerC, observer, fleetVars, batch, storeVars, httpVars,
      otherVars>>

\* Notify up to its cooldown check: the call returns nil there ("ignored")
\* or goes on to the channels
SenderEnter(g) ==
    /\ senders[g].pc = "idle"
    /\ call.calls < MaxCalls
    /\ \E n \in Names :
          LET r == [Name |-> n, Status |-> "DOWN"]
              pass == shouldNotify(manager, r) /\ checkCooldown(manager, n, now)
          IN  senders' = [senders EXCEPT
                            ![g] = [pc |-> IF pass THEN "send" ELSE "idle",
                                    name |-> n]]
    /\ call' = [call EXCEPT !.calls = @ + 1]
    /\ UNCHANGED <<nonSenderVars, now, manager>>

\* the Sends of the enabled channels, in order, up to the first that fails
SenderSend(g) ==
    /\ senders[g].pc = "send"
    /\ \E ok \in [Range_(Channels) -> BOOLEAN] :
          LET en == Enabled(manager)
              failed == {k \in DOMAIN en : ~ok[en[k]]}
              went == {k \in DOMAIN en : ok[en[k]] /\ \A j \in failed : k < j}
          IN  /\ senders' = [senders EXCEPT
                               ![g].pc = IF failed = {} THEN "record"
                                         ELSE "idle"]
              /\ call' = IF went = {} THEN call
                         ELSE [call EXCEPT !.dispatched[senders[g].name] =
                                               Append(@, now)]
    /\ UNCHANGED <<nonSenderVars, now, manager>>

\* m.lastNotification[result.Name] = time.Now(), under the write lock
SenderRecord(g) ==
    /\ senders[g].pc = "record"
    /\ manager' = [manager EXCEPT !.lastNotification[senders[g].name] = now]
    /\ senders' = [senders EXCEPT ![g].pc = "idle"]
    /\ UNCHANGED <<nonSenderVars, now, call>>

SenderClock ==
    /\ now < MaxTime
    /\ now' = now + 1
    /\ UNCHANGED <<nonSenderVars, manager, call, senders>>

NextSenders ==
    \/ SenderClock
    \/ \E g \in 1..NumSenders : SenderEnter(g)
    \/ \E g \in 1..NumSenders : SenderSend(g)
    \/ \E g \in 1..NumSenders : SenderRecord(g)

SpecSenders == InitSenders /\ [][NextSenders]_vars

\* ------------------------------------------------- storage.MemoryStorage
\* A record is a types.CheckResult: ID, Name, CreatedAt, and seq, which
\* stands for the fields copied from the result (no two results have the
\* same). services[n] is the ServiceInfo of name n, NoService when the map
\* has no entry for n.
NoService == [CreatedAt |-> ZeroTime, UpdatedAt |-> ZeroTime]

\* the file does not exist
NoFile == [exists |-> FALSE]

\* the MemoryStorageData that saveToFile writes for a store
StorageData(m) ==
    [exists |-> TRUE, Results |-> m.results, Services |-> m.services]

\* a file written by an earlier run that had saved k results, at instant 0
Snapshot(k) ==
    [exists |-> TRUE,
     Results |-> [i \in 1..k |-> [ID |-> i, Name |-> "a", CreatedAt |-> 0,
                                  seq |-> i]],
     Services |-> [n \in Names |->
                     IF n = "a" /\ k > 0
                     THEN [CreatedAt |-> 0, UpdatedAt |-> 0]
                     ELSE NoService]]

\* NewMemoryStorage(path) with loadFromFile: f is the file at path
NewMemoryStorage(path, f) ==
    [results |-> IF path # "" /\ f.exists THEN f.Results ELSE <<>>,
     services |-> IF path # "" /\ f.exists THEN f.Services
                  ELSE [n \in Names |-> NoService],
     path |-> path,
     autoSave |-> path # "",
     stopSave |-> "open"]

\* SaveResult(result) at instant t; seq stands for the result
MemorySaveResult_KeepIDs(m, name, seq, t) ==
    LET rec == [ID |-> Len(m.results) + 1, Name |-> name, CreatedAt |-> t,
                seq |-> seq]
        all == Append(m.results, rec)
        removeCount == maxResults \div 10
        kept == IF Len(all) > maxResults
                THEN SubSeq(all, removeCount + 1, Len(all))
                ELSE all
    IN  [m EXCEPT
           !.results = kept,
           !.services[name] =
               [CreatedAt |-> IF @ = NoService THEN t ELSE @.CreatedAt,
                UpdatedAt |-> t]]

MemorySaveResult(m, name, seq, t) ==
    LET rec == [ID |-> Len(m.results) + 1, Name |-> name, CreatedAt |-> t,
                seq |-> seq]
        all == Append(m.results, rec)
        removeCount == maxResults \div 10
        kept == IF Len(all) > maxResults
                THEN LET cut == SubSeq(all, removeCount + 1, Len(all))
                     IN  [i \in DOMAIN cut |-> [cut[i] EXCEPT !.ID = i]]
                ELSE all
    IN  [m EXCEPT
           !.results = kept,
           !.services[name] =
               [CreatedAt |-> IF @ = NoService THEN t ELSE @.CreatedAt,
                UpdatedAt |-> t]]

\* the length of the longest prefix of q whose records are older than cutoff
RECURSIVE OldPrefix(_, _)
OldPrefix(q, cutoff) ==
    IF q # <<>> /\ Head(q).CreatedAt < cutoff
    THEN 1 + OldPrefix(Tail(q), cutoff)
    ELSE 0

\* CleanupOldData(olderThan) at instant t
MemoryCleanupOldData_Inclusive(m, olderThan, t) ==
    LET removeCount == OldPrefix(m.results, t - olderThan + 1)
    IN  [m EXCEPT !.results = SubSeq(@, removeCount + 1, Len(@))]

MemoryCleanupOldData(m, olderThan, t) ==
    LET removeCount == OldPrefix(m.results, t - olderThan)
    IN  [m EXCEPT !.results = SubSeq(@, removeCount + 1, Len(@))]

\* the sizes of the files the store is constructed from
LoadedSizes == {0, maxResults - 1, maxResults}

\* journal: how many results were saved, how many records CleanupOldData
\* removed, and the last call: the store as it was before it, the result
\* saved, the instant and the age given
InitStore ==
    /\ ServiceIdle
    /\ cancelled = FALSE
    /\ now = 0
    /\ manager = NoManager
    /\ call = NoCall
    /\ senders = <<>>
    /\ http = <<>>
    /\ OtherIdle
    /\ savers = <<>>
    /\ file \in {[f |-> d, tmp |-> NoFile] :
                    d \in {NoFile} \cup {Snapshot(k) : k \in LoadedSizes}}
    /\ memory \in {NewMemoryStorage(path, file.f) : path \in {"", "f"}}
    /\ journal = [saves |-> 0, removed |-> 0, op |-> "none",
                  before |-> memory, seq |-> Len(memory.results),
                  at |-> 0, olderThan |-> 0]

\* what no call of the storage touches
nonStoreVars ==
    <<check, config, circuitBreakers, rateLimiter, breaker, pc, attempt,
      result, ticks, storage, notified, resultsChan, chanClosed, tick, hist,
      tickerC, observer, fleetVars, batch, notifierVars, senderVars,
      httpVars, otherVars>>

StoreClock ==
    /\ now < MaxTime
    /\ now' = now + 1
    /\ UNCHANGED <<nonStoreVars, cancelled, storeVars>>

StoreSave ==
    /\ journal.saves < MaxSaves
    /\ \E n \in Names :
          /\ memory' = MemorySaveResult(memory, n, journal.seq + 1, now)
          /\ journal' = [journal EXCEPT !.saves = @ + 1, !.op = "save",
                                        !.before = memory, !.seq = @ + 1,
                                        !.at = now, !.olderThan = 0]
    /\ UNCHANGED <<nonStoreVars, cancelled, now, file, savers>>

StoreCleanup ==
    /\ \E d \in 0..MaxAge :
          /\ memory' = MemoryCleanupOldData(memory, d, now)
          /\ journal' = [journal EXCEPT
                           !.removed = @ + Len(memory.results)
                                         - Len(memory'.results),
                           !.op = "cleanup", !.before = memory,
                           !.at = now, !.olderThan = d]
    /\ UNCHANGED <<nonStoreVars, cancelled, now, file, savers>>

NextStore ==
    \/ StoreClock
    \/ StoreSave
    \/ StoreCleanup

SpecStore == InitStore /\ [][NextStore]_vars

\* --------------------------- storage.MemoryStorage, persistence and Stop
\* The goroutines inside saveToFile: the auto-save worker, started by
\* NewMemoryStorage when a path is given, and the caller of Close, which is
\* Application.Stop. saveToFile copies the data under the read lock, then
\* writes path + ".tmp", then renames it to path.
Savers == {"worker", "closer"}

\* journal: the results saved, the ticks the worker served, what Stop
\* returned, the results saved when Stop was called, whether the worker
\* was inside saveToFile at or after that call, whether a new store was
\* constructed on the path afterwards, every content the store had, and
\* how a second call of Close ended
InitPersist ==
    /\ ServiceIdle
    /\ cancelled = FALSE
    /\ now = 0
    /\ manager = NoManager
    /\ call = NoCall
    /\ senders = <<>>
    /\ http = <<>>
    /\ OtherIdle
    /\ file \in {[f |-> d, tmp |-> NoFile] : d \in {NoFile, Snapshot(1)}}
    /\ memory \in {NewMemoryStorage(path, file.f) : path \in {"", "f"}}
    /\ savers = [g \in Savers |->
                   [pc |-> IF g = "worker" /\ memory.autoSave THEN "select"
                           ELSE "none",
                    data |-> NoFile]]
    /\ journal = [saves |-> 0, seq |-> Len(memory.results), ticks |-> 0,
                  stop |-> "none", saved |-> {}, raced |-> FALSE,
                  reopened |-> FALSE, held |-> {StorageData(memory)},
                  again |-> "none"]

\* what no step of the storage's persistence touches
nonPersistVars ==
    <<check, config, circuitBreakers, rateLimiter, breaker, now, pc, attempt,
      result, ticks, storage, notified, resultsChan, chanClosed, tick, hist,
      tickerC, observer, fleetVars, batch, notifierVars, senderVars,
      httpVars, otherVars>>

\* SaveResult, called by the monitor tasks, which have ended when Stop is
\* called
PersistSave ==
    /\ journal.stop = "none"
    /\ journal.saves < MaxSaves
    /\ \E n \in Names :
          memory' = MemorySaveResult(memory, n, journal.seq + 1, now)
    /\ journal' = [journal EXCEPT !.saves = @ + 1, !.seq = @ + 1,
                                  !.held = @ \cup {StorageData(memory')}]
    /\ UNCHANGED <<nonPersistVars, cancelled, file, savers>>

\* the worker's select takes the ticker case and enters saveToFile, which
\* copies m.results and m.services under the read lock
WorkerTick ==
    /\ savers["worker"].pc = "select"
    /\ journal.ticks < MaxAutoSaves
    /\ ~journal.reopened
    /\ savers' = [savers EXCEPT !["worker"] =
                     [pc |-> "write", data |-> StorageData(memory)]]
    /\ journal' = [journal EXCEPT !.ticks = @ + 1,
                                  !.raced = @ \/ journal.stop # "none"]
    /\ UNCHANGED <<nonPersistVars, cancelled, memory, file>>

\* the worker's select takes the stopSave case
WorkerStop ==
    /\ savers["worker"].pc = "select"
    /\ memory.stopSave = "closed"
    /\ savers' = [savers EXCEPT !["worker"].pc = "returned"]
    /\ UNCHANGED <<nonPersistVars, cancelled, memory, file, journal>>

\* saveToFile returns in goroutine g: the worker logs the error and goes
\* back to its select, Close returns it and so does Stop
SaverReturn(g, err) ==
    /\ savers' = [savers EXCEPT ![g] =
                     [pc |-> IF g = "worker" THEN "select" ELSE "returned",
                      data |-> NoFile]]
    /\ journal' = IF g = "closer"
                  THEN [journal EXCEPT !.stop = IF err THEN "error" ELSE "nil"]
                  ELSE journal

\* what json.MarshalIndent reads after the read lock is released: the
\* results of the copied slice, and the services of the map the store still
\* updates, as they were when copied or as they are now
Marshalled(g) ==
    {[savers[g].data EXCEPT !.Services = sv] :
        sv \in {savers[g].data.Services}
                  \cup (IF journal.reopened THEN {} ELSE {memory.services})}

\* json.MarshalIndent and os.WriteFile(tempPath, data): written, or an
\* error returned
SaverWrite(g) ==
    /\ savers[g].pc = "write"
    /\ \E ok \in BOOLEAN :
          IF ok
          THEN /\ \E data \in Marshalled(g) :
                     file' = [file EXCEPT !.tmp = data]
               /\ savers' = [savers EXCEPT ![g].pc = "rename"]
               /\ UNCHANGED journal
          ELSE /\ SaverReturn(g, TRUE)
               /\ UNCHANGED file
    /\ UNCHANGED <<nonPersistVars, cancelled, memory>>

\* os.Rename(tempPath, path): the temporary file, whoever wrote it last,
\* becomes the file; on an error (there is no temporary file, or the
\* rename fails) the temporary file is removed and the error returned
SaverRename(g) ==
    /\ savers[g].pc = "rename"
    /\ \E ok \in BOOLEAN :
          IF ok /\ file.tmp.exists
          THEN /\ file' = [f |-> file.tmp, tmp |-> NoFile]
               /\ SaverReturn(g, FALSE)
          ELSE /\ file' = [file EXCEPT !.tmp = NoFile]
               /\ SaverReturn(g, TRUE)
    /\ UNCHANGED <<nonPersistVars, cancelled, memory>>

\* Application.Stop: a.cancel(), then return a.storage.Close(). Close with
\* autoSave closes stopSave and enters saveToFile; without, it returns nil.
Stop ==
    /\ journal.stop = "none"
    /\ cancelled' = TRUE
    /\ IF memory.autoSave
       THEN /\ memory' = [memory EXCEPT !.stopSave = "closed"]
            /\ savers' = [savers EXCEPT !["closer"] =
                             [pc |-> "write", data |-> StorageData(memory)]]
            /\ journal' = [journal EXCEPT
                             !.stop = "running",
                             !.saved = {memory.results[i].seq :
                                          i \in DOMAIN memory.results},
                             !.raced = savers["worker"].pc
                                          \in {"write", "rename"}]
       ELSE /\ journal' = [journal EXCEPT !.stop = "nil"]
            /\ UNCHANGED <<memory, savers>>
    /\ UNCHANGED <<nonPersistVars, file>>

\* NewMemoryStorage on the same path, after Stop has returned
Reopen ==
    /\ journal.stop \in {"nil", "error"}
    /\ ~journal.reopened
    /\ memory.path # ""
    /\ memory' = NewMemoryStorage(memory.path, file.f)
    /\ journal' = [journal EXCEPT !.reopened = TRUE,
                                  !.held = @ \cup {StorageData(memory')}]
    /\ UNCHANGED <<nonPersistVars, cancelled, file, savers>>

\* Close once more on the same store, after Stop has returned (a deferred
\* Close): without autoSave it returns nil; with autoSave it comes to
\* close(m.stopSave), and closing the channel the first call closed panics
CloseAgain ==
    /\ journal.stop \in {"nil", "error"}
    /\ journal.again = "none"
    /\ ~journal.reopened
    /\ journal' = [journal EXCEPT
                     !.again = IF memory.autoSave /\ memory.stopSave = "closed"
                               THEN "panic" ELSE "nil"]
    /\ UNCHANGED <<nonPersistVars, cancelled, memory, file, savers>>

NextPersist ==
    \/ PersistSave
    \/ WorkerTick
    \/ WorkerStop
    \/ \E g \in Savers : SaverWrite(g)
    \/ \E g \in Savers : SaverRename(g)
    \/ Stop
    \/ CloseAgain
    \/ Reopen

SpecPersist == InitPersist /\ [][NextPersist]_vars

\* ------------------------------------------------- checker.HTTPChecker
\* A body or a header value is a sequence of words; strings.Contains(body, w)
\* finds the word.
Contains(body, w) == \E k \in DOMAIN body : body[k] = w

\* types.Expected as far as the checker reads it; "" and 0 are "not set"
Expectations ==
    [Status : {0, 200}, StatusRange : {<<>>, <<200, 299>>},
     BodyContains : {"", "ok"}, BodyNotContains : {"", "error"},
     ContentType : {"", "json"}, MinBodySize : {0, 2},
     ResponseTimeMax : {0, 1}]

\* what happens to the request: the URL is refused, the transport fails,
\* the body cannot be read, or a response arrives after some duration
Responses ==
    [outcome : {"response"}, StatusCode : {200, 204, 500},
     body : {<<"ok">>, <<"ok", "error">>},
     ContentType : {<<"json", "charset">>, <<"html">>},
     duration : 0..MaxDuration]
      \cup [outcome : {"invalid url", "network error", "read error"},
            StatusCode : {500}, body : {<<>>}, ContentType : {<<"html">>},
            duration : {0}]

\* validateResponse(resp, body, expected): "nil" or what failed
validateResponse(resp, expected) ==
    IF /\ expected.Status > 0
       /\ resp.StatusCode # expected.Status
       /\ IF Len(expected.StatusRange) = 2
          THEN \/ resp.StatusCode < expected.StatusRange[1]
               \/ resp.StatusCode > expected.StatusRange[2]
          ELSE TRUE
    THEN "status code"
    ELSE IF /\ expected.BodyContains # ""
            /\ ~Contains(resp.body, expected.BodyContains)
    THEN "body content"
    ELSE IF /\ expected.BodyNotContains # ""
            /\ Contains(resp.body, expected.BodyNotContains)
    THEN "body content"
    ELSE IF /\ expected.ContentType # ""
            /\ ~Contains(resp.ContentType, expected.ContentType)
    THEN "content type"
    ELSE IF expected.MinBodySize > 0 /\ Len(resp.body) < expected.MinBodySize
    THEN "body size"
    ELSE "nil"

\* HTTPChecker.Check: the status of the result
HTTPCheck(resp, expected) ==
    CASE resp.outcome = "invalid url" -> "ERROR"
      [] resp.outcome = "network error" -> "DOWN"
      [] resp.outcome = "read error" -> "ERROR"
      [] OTHER ->
          IF validateResponse(resp, expected) # "nil"
          THEN IF /\ resp.duration > expected.ResponseTimeMax
                  /\ expected.ResponseTimeMax > 0
               THEN "SLOW"
               ELSE "DOWN"
          ELSE IF /\ expected.ResponseTimeMax > 0
                  /\ resp.duration > expected.ResponseTimeMax
          THEN "SLOW"
          ELSE "UP"

InitHTTP ==
    /\ ServiceIdle
    /\ cancelled = FALSE
    /\ now = 0
    /\ manager = NoManager
    /\ call = NoCall
    /\ senders = <<>>
    /\ memory = <<>>
    /\ file = <<>>
    /\ savers = <<>>
    /\ journal = <<>>
    /\ http \in [resp : Responses, expected : Expectations, Status : {"none"}]
    /\ OtherIdle

\* one call of Check
Check ==
    /\ http.Status = "none"
    /\ http' = [http EXCEPT !.Status = HTTPCheck(http.resp, http.expected)]
    /\ UNCHANGED <<engineVars, cancelled, fleetVars, batch, notifierVars,
                   senderVars, storeVars, otherVars>>

NextHTTP ==
    \/ Check

SpecHTTP == InitHTTP /\ [][NextHTTP]_vars

\* -------------------------------------------------- checker.SSLChecker
\* A string is a sequence of characters.
HasPrefix(str, prefix) ==
    /\ Len(str) >= Len(prefix)
    /\ SubSeq(str, 1, Len(prefix)) = prefix

HasSuffix(str, suffix) ==
    /\ Len(str) >= Len(suffix)
    /\ SubSeq(str, Len(str) - Len(suffix) + 1, Len(str)) = suffix

TrimPrefix(str, prefix) ==
    IF HasPrefix(str, prefix) THEN SubSeq(str, Len(prefix) + 1, Len(str))
    ELSE str

\* "*.e.c", "a.e.c", "ae.c", "e.c" and "o.c"
WildName == <<"*", ".", "e", ".", "c">>
SubName == <<"a", ".", "e", ".", "c">>
LookalikeName == <<"a", "e", ".", "c">>
ApexName == <<"e", ".", "c">>
OtherName == <<"o", ".", "c">>

\* types.CertInfo as far as validateCertificate reads it; DNSNames is the
\* set of the entries of the list
CertInfos ==
    [IsValid : BOOLEAN, DaysToExpiry : {1, 2}, CommonName : {<<>>, ApexName},
     DNSNames : SUBSET {WildName, SubName}]

\* types.Expected as far as the SSL checker reads it; 0 and {} are "not set"
SSLExpectations ==
    [CertExpiryDays : {0, 1},
     CertValidDomains :
         {D \in SUBSET {SubName, LookalikeName, ApexName, OtherName} :
             Cardinality(D) <= 2},
     ResponseTimeMax : {0, 1}]

\* the names the certificate is valid for (the keys of the map validDomains)
validDomains(certInfo) ==
    (IF certInfo.CommonName # <<>> THEN {certInfo.CommonName} ELSE {})
        \cup certInfo.DNSNames

\* the inner loop of validateCertificate for one expected domain
wildcardMatch(certInfo, expectedDomain) ==
    \E validDomain \in validDomains(certInfo) :
        /\ HasPrefix(validDomain, <<"*", ".">>)
        /\ HasSuffix(expectedDomain, TrimPrefix(validDomain, <<"*", ".">>))

\* TRUE when validateCertificate returns nil
validateCertificate(certInfo, expected) ==
    /\ certInfo.IsValid
    /\ ~(expected.CertExpiryDays > 0
          /\ certInfo.DaysToExpiry <= expected.CertExpiryDays)
    /\ \A expectedDomain \in expected.CertValidDomains :
           \/ expectedDomain \in validDomains(certInfo)
           \/ wildcardMatch(certInfo, expectedDomain)

\* the status SSLChecker.Check returns; reach says how far the connection
\* gets: the target is refused, host and port cannot be parsed, the
\* handshake fails, or the certificate arrives
SSLStatus(reach, certInfo, expected, duration) ==
    IF reach \in {"refused", "unparsable"} THEN "ERROR"
    ELSE IF reach = "unreachable" THEN "DOWN"
    ELSE IF ~validateCertificate(certInfo, expected) THEN "WARNING"
    ELSE IF expected.ResponseTimeMax > 0
            /\ duration > expected.ResponseTimeMax THEN "SLOW"
    ELSE "UP"

\* no service, no notification manager, no storage, no HTTP check
BaseIdle ==
    /\ ServiceIdle
    /\ cancelled = FALSE
    /\ now = 0
    /\ manager = NoManager
    /\ call = NoCall
    /\ senders = <<>>
    /\ memory = <<>>
    /\ file = <<>>
    /\ savers = <<>>
    /\ journal = <<>>
    /\ http = <<>>

InitSSL ==
    /\ BaseIdle
    /\ ssl \in [reach : {"refused", "unparsable", "unreachable", "ok"},
                certInfo : CertInfos, expected : SSLExpectations,
                duration : 0..MaxDuration, Status : {"none"}]
    /\ cleaner = <<>>
    /\ requests = <<>>
    /\ query = <<>>
    /\ lookups = <<>>

\* the service but its breaker, the clock and the context
serviceVars ==
    <<check, config, circuitBreakers, rateLimiter, pc, attempt, result, ticks,
      storage, notified, resultsChan, chanClosed, tick, hist, tickerC,
      observer, fleetVars, batch, notifierVars>>

\* everything but the components that are looked at one at a time
baseVars ==
    <<engineVars, cancelled, fleetVars, batch, notifierVars, sideVars>>

\* SSLChecker.Check
SSLCheck ==
    /\ ssl.Status = "none"
    /\ ssl' = [ssl EXCEPT !.Status =
                   SSLStatus(ssl.reach, ssl.certInfo, ssl.expected,
                             ssl.duration)]
    /\ UNCHANGED <<baseVars, cleaner, requests, query, lookups>>

NextSSL ==
    \/ SSLCheck

SpecSSL == InitSSL /\ [][NextSSL]_vars

\* ------------------------------------------------- the periodic cleanup
\* The age given to CleanupOldData (30 days), in instants of the clock.
CleanupAge == 1

\* Two programs start the task: Application (startBackgroundCleanup, which
\* selects on a.ctx and the ticker) and App (backgroundCleanup, which ranges
\* over the ticker). cleaner: the owner, where the goroutine is, whether a
\* tick is waiting in ticker.C, the ticks sent, whether the owner was shut
\* down, the calls of CleanupOldData and those made after the shutdown.
InitCleanup ==
    /\ ServiceIdle
    /\ cancelled = FALSE
    /\ now = 0
    /\ manager = NoManager
    /\ call = NoCall
    /\ senders = <<>>
    /\ savers = <<>>
    /\ journal = <<>>
    /\ http = <<>>
    /\ file \in {[f |-> Snapshot(k), tmp |-> NoFile] : k \in 0..2}
    /\ memory = NewMemoryStorage("f", file.f)
    /\ ssl = <<>>
    /\ cleaner \in [owner : {"Application", "App"}, pc : {"wait"},
                    tickerC : {FALSE}, ticks : {0}, down : {FALSE},
                    calls : {0}, late : {0}]
    /\ requests = <<>>
    /\ query = <<>>
    /\ lookups = <<>>

\* what the cleanup task and the shutdown leave alone
nonCleanupVars ==
    <<serviceVars, breaker, senderVars, file, savers, journal, httpVars, ssl,
      requests, query, lookups>>

CleanupClock ==
    /\ now < MaxTime
    /\ now' = now + 1
    /\ UNCHANGED <<nonCleanupVars, cancelled, memory, cleaner>>

\* the runtime sends a tick; ticker.C holds one tick
CleanupTickerFire ==
    /\ cleaner.pc = "wait"
    /\ ~cleaner.tickerC
    /\ cleaner.ticks < MaxCleanTicks
    /\ cleaner' = [cleaner EXCEPT !.tickerC = TRUE, !.ticks = @ + 1]
    /\ UNCHANGED <<nonCleanupVars, cancelled, now, memory>>

\* the task receives the tick and calls CleanupOldData; a select with
\* a.ctx.Done() also ready may still choose this case
CleanupRun ==
    /\ cleaner.pc = "wait"
    /\ cleaner.tickerC
    /\ memory' = MemoryCleanupOldData(memory, CleanupAge, now)
    /\ cleaner' = [cleaner EXCEPT
                     !.tickerC = FALSE, !.calls = @ + 1,
                     !.late = IF cleaner.down THEN @ + 1 ELSE @]
    /\ UNCHANGED <<nonCleanupVars, cancelled, now>>

\* case <-a.ctx.Done(): return
CleanupExit ==
    /\ cleaner.owner = "Application"
    /\ cleaner.pc = "wait"
    /\ cancelled
    /\ cleaner' = [cleaner EXCEPT !.pc = "done"]
    /\ UNCHANGED <<nonCleanupVars, cancelled, now, memory>>

\* Application.Stop: a.cancel() and storage.Close(); App.Close:
\* storage.Close() alone
Shutdown ==
    /\ ~cleaner.down
    /\ cleaner' = [cleaner EXCEPT !.down = TRUE]
    /\ cancelled' = (cleaner.owner = "Application")
    /\ memory' = [memory EXCEPT !.stopSave = "closed"]
    /\ UNCHANGED <<nonCleanupVars, now>>

NextCleanup ==
    \/ CleanupClock
    \/ CleanupTickerFire
    \/ CleanupRun
    \/ CleanupExit
    \/ Shutdown

SpecCleanup == InitCleanup /\ [][NextCleanup]_vars

\* --------------------------- circuitBreaker, called by several goroutines
Callers == 1..NumCallers

\* the configurations the shared breaker is constructed with
BreakerConfigs ==
    [Enabled : BOOLEAN, MaxFailures : 1..MaxFailuresCfg,
     Timeout : {MaxTimeoutCfg}, SuccessThreshold : 1..MaxThresholdCfg]

\* requests: per goroutine where it is in Execute and whether the breaker
\* went from OPEN to HALF_OPEN since it was admitted; the calls of Execute
\* started, those rejected, and the invocations of the wrapped function
InitBreaker ==
    /\ checks = <<>>
    /\ monitor = <<>>
    /\ consumer = <<>>
    /\ returned = "running"
    /\ batch = NoBatch
    /\ check = [Attempts |-> 1]
    /\ config \in BreakerConfigs
    /\ circuitBreakers = "set"
    /\ rateLimiter = FALSE
    /\ breaker = New(0)
    /\ pc = "initial"
    /\ attempt = 0
    /\ result = [Status |-> "UP", Error |-> "", ResponseTime |-> 0,
                 probe |-> 0]
    /\ ticks = 0
    /\ storage = <<>>
    /\ notified = <<>>
    /\ resultsChan = <<>>
    /\ chanClosed = FALSE
    /\ tick = [exec |-> 0, recorded |-> 0, rejected |-> FALSE]
    /\ hist = [failStreak |-> 0, streak |-> 0, hoSucc |-> 0,
               failedAt |-> ZeroTime, reopens |-> 0]
    /\ tickerC = FALSE
    /\ observer = TRUE
    /\ cancelled = FALSE
    /\ now = 0
    /\ manager = NoManager
    /\ call = NoCall
    /\ senders = <<>>
    /\ memory = <<>>
    /\ file = <<>>
    /\ savers = <<>>
    /\ journal = <<>>
    /\ http = <<>>
    /\ ssl = <<>>
    /\ cleaner = <<>>
    /\ requests = [of |-> [g \in Callers |-> [pc |-> "idle", stale |-> FALSE]],
                   started |-> 0, rejected |-> 0, invoked |-> 0]
    /\ query = <<>>
    /\ lookups = <<>>

\* what no call on the shared breaker touches
nonBreakerVars ==
    <<check, circuitBreakers, rateLimiter, pc, attempt, result, ticks,
      storage, notified, resultsChan, chanClosed, tick, hist, tickerC,
      observer, fleetVars, batch, notifierVars, cancelled, sideVars, ssl,
      cleaner, query, lookups>>

BreakerClock ==
    /\ now < MaxTime
    /\ now' = now + 1
    /\ UNCHANGED <<nonBreakerVars, config, breaker, requests>>

\* Execute on a disabled breaker: return fn()
ExecuteBypass(g) ==
    /\ ~config.Enabled
    /\ requests.of[g].pc = "idle"
    /\ requests.started < MaxExecutes
    /\ requests' = [requests EXCEPT !.started = @ + 1, !.invoked = @ + 1]
    /\ UNCHANGED <<nonBreakerVars, config, breaker, now>>

\* Execute up to the call of fn: beforeRequest under the lock, and the
\* return of its error
ExecuteBefore(g) ==
    /\ config.Enabled
    /\ requests.of[g].pc = "idle"
    /\ requests.started < MaxExecutes
    /\ LET r == beforeRequest(breaker, config, now)
           halfOpened == breaker.state = "OPEN" /\ r.cb.state = "HALF_OPEN"
           others == [h \in Callers |->
                         [requests.of[h] EXCEPT
                            !.stale = @ \/ (halfOpened
                                            /\ requests.of[h].pc = "fn")]]
       IN  /\ breaker' = r.cb
           /\ requests' =
                 IF r.err = "nil"
                 THEN [requests EXCEPT
                         !.of = [others EXCEPT
                                   ![g] = [pc |-> "fn", stale |-> FALSE]],
                         !.started = @ + 1, !.invoked = @ + 1]
                 ELSE [requests EXCEPT !.started = @ + 1,
                                       !.rejected = @ + 1]
    /\ UNCHANGED <<nonBreakerVars, config, now>>

\* fn returns and afterRequest records its outcome under the lock
ExecuteAfter(g) ==
    /\ requests.of[g].pc = "fn"
    /\ \E failed \in BOOLEAN :
          breaker' = afterRequest(breaker, config, failed, now)
    /\ requests' = [requests EXCEPT
                      !.of[g] = [pc |-> "idle", stale |-> FALSE]]
    /\ UNCHANGED <<nonBreakerVars, config, now>>

\* Reset, from any goroutine
BreakerReset ==
    /\ config.Enabled
    /\ breaker' = Reset(breaker, now)
    /\ UNCHANGED <<nonBreakerVars, config, now, requests>>

NextBreaker ==
    \/ BreakerClock
    \/ \E g \in Callers : ExecuteBypass(g)
    \/ \E g \in Callers : ExecuteBefore(g)
    \/ \E g \in Callers : ExecuteAfter(g)
    \/ BreakerReset

SpecBreaker == InitBreaker /\ [][NextBreaker]_vars

\* ------------------------------- MemoryStorage and SQLiteStorage, queried
\* the statuses saved: one healthy, one healthy but slow, one not healthy
SavedStatuses == {"UP", "SLOW", "DOWN"}

\* sort by timestamp descending (sort.Slice, ORDER BY timestamp DESC)
RECURSIVE NewestFirst(_)
NewestFirst(S) ==
    IF S = {} THEN <<>>
    ELSE LET m == CHOOSE r \in S : \A q \in S : q.Timestamp <= r.Timestamp
         IN  <<m>> \o NewestFirst(S \ {m})

\* the first n elements
Head_(q, n) == SubSeq(q, 1, IF n < Len(q) THEN n ELSE Len(q))

\* MemoryStorage.SaveResult as far as the queries read the records
QueryMemorySave(results, rec) ==
    LET all == Append(results, rec)
        removeCount == maxResults \div 10
    IN  IF Len(all) > maxResults
        THEN SubSeq(all, removeCount + 1, Len(all))
        ELSE all

\* MemoryStorage.GetServiceHistory: the records after since, newest first
MemoryGetServiceHistory(results, name, since, limit) ==
    LET found == NewestFirst({r \in Range_(results) :
                                r.Name = name /\ r.Timestamp > since})
    IN  IF limit > 0 /\ Len(found) > limit THEN Head_(found, limit)
        ELSE found

\* SQLiteStorage.GetServiceHistory: WHERE name = ? AND timestamp >= ?
\* ORDER BY timestamp DESC LIMIT ?
SQLiteGetServiceHistory(rows, name, since, limit) ==
    LET found == NewestFirst({r \in Range_(rows) :
                                r.Name = name /\ r.Timestamp >= since})
    IN  IF limit >= 0 THEN Head_(found, limit) ELSE found

\* the ServiceStats computed over the records selected; the percentage is
\* kept as a whole number
StatsOver(selected) ==
    LET successful == {r \in selected : r.Status = "UP"} IN
    IF selected = {} THEN [err |-> TRUE]
    ELSE [err |-> FALSE,
          selected |-> selected,
          TotalChecks |-> Cardinality(selected),
          SuccessfulChecks |-> Cardinality(successful),
          FailedChecks |-> Cardinality(selected \ successful),
          UptimePercent |->
              (Cardinality(successful) * 100) \div Cardinality(selected)]

\* MemoryStorage.GetServiceStats: an unknown service is an error, a record
\* is skipped when its timestamp is before since
MemoryGetServiceStats(results, services, name, since) ==
    IF name \notin services THEN [err |-> TRUE]
    ELSE StatsOver({r \in Range_(results) :
                      r.Name = name /\ ~(r.Timestamp < since)})

\* SQLiteStorage.GetServiceStats: WHERE name = ? AND timestamp >= ?
SQLiteGetServiceStats(rows, name, since) ==
    StatsOver({r \in Range_(rows) : r.Name = name /\ r.Timestamp >= since})

\* query: the records of the in-memory store and the services it knows,
\* the rows of the SQLite store, and the last question with both answers
InitQuery ==
    /\ BaseIdle
    /\ ssl = <<>>
    /\ cleaner = <<>>
    /\ requests = <<>>
    /\ query = [results |-> <<>>, services |-> {}, rows |-> <<>>,
                asked |-> FALSE]
    /\ lookups = <<>>

\* what neither store touches
nonQueryVars ==
    <<serviceVars, breaker, cancelled, sideVars, ssl, cleaner, requests,
      lookups>>

QueryClock ==
    /\ now < MaxTime
    /\ now' = now + 1
    /\ UNCHANGED <<nonQueryVars, query>>

\* SaveResult of the same result on both stores; a service's results carry
\* distinct timestamps
QuerySave ==
    /\ Len(query.rows) < MaxRows
    /\ \E n \in Names, st \in SavedStatuses :
          LET rec == [seq |-> Len(query.rows) + 1, Name |-> n, Status |-> st,
                      Timestamp |-> now]
          IN  /\ \A r \in Range_(query.rows) :
                    r.Name = n => r.Timestamp # now
              /\ query' = [results |-> QueryMemorySave(query.results, rec),
                           services |-> query.services \cup {n},
                           rows |-> Append(query.rows, rec),
                           asked |-> FALSE]
    /\ UNCHANGED <<nonQueryVars, now>>

\* GetServiceHistory and GetServiceStats with the same arguments on both
QueryAsk ==
    /\ \E n \in Names, since \in 0..now, limit \in 1..MaxLimit :
          query' = [results |-> query.results,
                    services |-> query.services,
                    rows |-> query.rows,
                    asked |-> TRUE,
                    args |-> [name |-> n, since |-> since, limit |-> limit],
                    history |->
                        [memory |-> MemoryGetServiceHistory(
                                        query.results, n, since, limit),
                         sqlite |-> SQLiteGetServiceHistory(
                                        query.rows, n, since, limit)],
                    stats |->
                        [memory |-> MemoryGetServiceStats(
                                        query.results, query.services, n,
                                        since),
                         sqlite |-> SQLiteGetServiceStats(
                                        query.rows, n, since)]]
    /\ UNCHANGED <<nonQueryVars, now>>

NextQuery ==
    \/ QueryClock
    \/ QuerySave
    \/ QueryAsk

SpecQuery == InitQuery /\ [][NextQuery]_vars

\* ------------------ circuitbreaker.Manager and ratelimit.PerEndpointLimiter
\* The two maps from endpoint key to instance: m.breakers and p.limiters.
Kinds == {"breaker", "limiter"}
Lookers == 1..NumLookers
Cells == Kinds \X Names

\* a goroutine outside GetBreaker and getOrCreateLimiter
IdleLooker ==
    [pc |-> "idle", cell |-> <<>>, got |-> 0, via |-> "none", stale |-> FALSE]

\* lookups: per map and key the instance in the map (0: none), the
\* instances made for it, those made since the key was last removed; the
\* removals; per goroutine where it is, the instance it obtained and how,
\* and whether the key was removed since
InitLookups ==
    /\ BaseIdle
    /\ ssl = <<>>
    /\ cleaner = <<>>
    /\ requests = <<>>
    /\ query = <<>>
    /\ lookups = [entry |-> [c \in Cells |-> 0],
                  made |-> [c \in Cells |-> 0],
                  fresh |-> [c \in Cells |-> 0],
                  removals |-> 0,
                  of |-> [g \in Lookers |-> IdleLooker]]

\* what no lookup touches
nonLookupVars ==
    <<serviceVars, breaker, cancelled, now, sideVars, ssl, cleaner, requests,
      query>>

\* the read-locked part: return the entry when it exists, else release the
\* read lock
LookupRead(g, c) ==
    /\ lookups.of[g].pc = "idle"
    /\ lookups' = [lookups EXCEPT !.of[g] =
                      IF lookups.entry[c] # 0
                      THEN [pc |-> "holding", cell |-> c,
                            got |-> lookups.entry[c], via |-> "read",
                            stale |-> FALSE]
                      ELSE [pc |-> "miss", cell |-> c, got |-> 0,
                            via |-> "none", stale |-> FALSE]]
    /\ UNCHANGED nonLookupVars

\* the write-locked part without the second look at the map
LookupCreate_NoRecheck(g) ==
    /\ lookups.of[g].pc = "miss"
    /\ LET c == lookups.of[g].cell
           id == lookups.made[c] + 1
       IN  lookups' = [lookups EXCEPT
                         !.entry[c] = id, !.made[c] = id,
                         !.fresh[c] = @ + 1,
                         !.of[g] = [pc |-> "holding", cell |-> c, got |-> id,
                                    via |-> "create", stale |-> FALSE]]
    /\ UNCHANGED nonLookupVars

\* the write-locked part: look again, create the entry when it is still
\* missing, return the entry of the map
LookupCreate(g) ==
    /\ lookups.of[g].pc = "miss"
    /\ LET c == lookups.of[g].cell
           id == lookups.made[c] + 1
       IN  lookups' =
             IF lookups.entry[c] # 0
             THEN [lookups EXCEPT
                     !.of[g] = [pc |-> "holding", cell |-> c,
                                got |-> lookups.entry[c], via |-> "recheck",
                                stale |-> FALSE]]
             ELSE [lookups EXCEPT
                     !.entry[c] = id, !.made[c] = id, !.fresh[c] = @ + 1,
                     !.of[g] = [pc |-> "holding", cell |-> c, got |-> id,
                                via |-> "create", stale |-> FALSE]]
    /\ UNCHANGED nonLookupVars

\* the caller has used the instance (Execute, Allow) and dropped it
LookupRelease(g) ==
    /\ lookups.of[g].pc = "holding"
    /\ lookups' = [lookups EXCEPT !.of[g] = IdleLooker]
    /\ UNCHANGED nonLookupVars

\* SetLimit(key, limit, burst): an existing entry is updated in place, a
\* missing one is created
SetLimit(n) ==
    /\ LET c == <<"limiter", n>>
           id == lookups.made[c] + 1
       IN  lookups' = IF lookups.entry[c] # 0 THEN lookups
                      ELSE [lookups EXCEPT !.entry[c] = id, !.made[c] = id,
                                           !.fresh[c] = @ + 1]
    /\ UNCHANGED nonLookupVars

\* RemoveBreaker(key), RemoveLimit(key)
LookupRemove(c) ==
    /\ lookups.removals < MaxRemovals
    /\ lookups' = [lookups EXCEPT
                     !.entry[c] = 0, !.fresh[c] = 0, !.removals = @ + 1,
                     !.of = [g \in Lookers |->
                               IF @[g].cell = c /\ @[g].pc = "holding"
                               THEN [@[g] EXCEPT !.stale = TRUE]
                               ELSE @[g]]]
    /\ UNCHANGED nonLookupVars

NextLookups ==
    \/ \E g \in Lookers, c \in Cells : LookupRead(g, c)
    \/ \E g \in Lookers : LookupCreate(g)
    \/ \E g \in Lookers : LookupRelease(g)
    \/ \E n \in Names : SetLimit(n)
    \/ \E c \in Cells : LookupRemove(c)

SpecLookups == InitLookups /\ [][NextLookups]_vars

\* ------------------------------------------------------------ properties
Max(a, b) == IF a >= b THEN a ELSE b

\* the probe occurrence has left ExecuteCheck with a result
Completed == pc \in {"send", "notify"}

\* the monitor goroutine is between probe occurrences, or has exited
Left == pc \in {"idle", "done"}

\* this step is a call of beforeRequest on the existing breaker
BreakerCalled == BreakerOn /\ pc = "loop" /\ tick'.calls = tick.calls + 1

\* this step records an outcome in afterRequest
OutcomeRecorded == BreakerOn /\ pc = "check" /\ tick'.recorded = tick.recorded + 1

\* C1: in one probe occurrence the breaker records exactly one outcome, that
\* of the final result, however many attempts ran.
C1_OneOutcomePerTick ==
    BreakerOn =>
        /\ tick.recorded <= 1
        /\ (pc = "store" /\ tick.exec > 0 => tick.recorded = 1)

\* C2: after max_failures consecutive failing ticks, a tick that reaches the
\* breaker before the timeout has elapsed never invokes the executor and
\* ends with the synthetic DOWN result (response time 0).
C2_OpenAfterMaxFailures ==
    tick.armed =>
        /\ tick.exec = 0
        /\ (pc = "store" \/ Completed => result = SyntheticResult(ticks))

\* C2, restricted to checks without retries (attempts <= 1)
C2_WithoutRetries == check.Attempts <= 1 => C2_OpenAfterMaxFailures

\* C3: once the breaker has rejected the probe, the occurrence ends at once:
\* no retry delay, no further breaker call, no executor call.
C3_NoRetryAfterOpen ==
    tick.rejected =>
        /\ pc \notin {"sleep", "loop", "check"}
        /\ tick.afterReject = 0

\* C4: a probe occurrence stores exactly one result, whatever the number of
\* attempts: nothing is stored while the attempts run, and a completed
\* occurrence has put exactly its final result into storage.
C4_OneStoredPerTick ==
    /\ tick.stored <= 1
    /\ pc \in {"wait", "loop", "check", "sleep", "store"} => tick.stored = 0
    /\ Completed =>
          /\ tick.saves = 1
          /\ tick.stored = 1
          /\ storage # <<>>
          /\ storage[Len(storage)] = result

C4_Witness ==
    /\ Completed
    /\ check.Attempts = 2
    /\ tick.exec = 2
    /\ ~IsHealthy(result)
    /\ tick.stored = 1

\* C5: a completed probe occurrence (the executor ran, or the breaker
\* answered for it) is stored once and handed to the notifier once: when the
\* task has left the occurrence, the result it saved has been passed to
\* Notify exactly once.
C5_StoredAndNotifiedOnce ==
    /\ tick.saves <= 1
    /\ tick.handed <= 1
    /\ tick.handed = 1 => tick.saves = 1
    /\ (Left /\ tick.saves = 1 /\ (tick.exec > 0 \/ tick.rejected)) =>
          /\ tick.handed = 1
          /\ notified # <<>>
          /\ notified[Len(notified)] = result

\* C5, as long as the root context is not cancelled
C5_WhileNotCancelled == ~cancelled => C5_StoredAndNotifiedOnce

\* C6: a request at an OPEN breaker is admitted, to HALF_OPEN with
\* consecutive_successes = 0, iff now - last_state_change >= timeout;
\* otherwise it is rejected.
C6_AdmitAtTimeout ==
    [][ (BreakerCalled /\ breaker.state = "OPEN") =>
            IF now - breaker.lastStateChange >= config.Timeout
            THEN /\ breaker'.state = "HALF_OPEN"
                 /\ breaker'.consecutiveSuccesses = 0
                 /\ pc' = "check"
            ELSE /\ breaker'.state = "OPEN"
                 /\ tick'.rejected
                 /\ result' = SyntheticResult(ticks) ]_vars

\* C6 as the code has it: admitted iff now - last_state_change > timeout
C6_AdmitAfterTimeout ==
    [][ (BreakerCalled /\ breaker.state = "OPEN") =>
            IF now - breaker.lastStateChange > config.Timeout
            THEN /\ breaker'.state = "HALF_OPEN"
                 /\ breaker'.consecutiveSuccesses = 0
                 /\ pc' = "check"
            ELSE /\ breaker'.state = "OPEN"
                 /\ tick'.rejected
                 /\ result' = SyntheticResult(ticks) ]_vars

\* C7: a HALF_OPEN breaker closes exactly when success_threshold successes
\* have been recorded since it became HALF_OPEN, and closing sets failures
\* to 0; with fewer successes it stays HALF_OPEN.
C7_CloseAtThreshold ==
    [][ (BreakerOn /\ breaker.state = "HALF_OPEN") =>
            /\ breaker'.state = "CLOSED" =>
                  /\ hist'.hoSucc = config.SuccessThreshold
                  /\ breaker'.failures = 0
            /\ hist'.hoSucc >= config.SuccessThreshold =>
                  breaker'.state = "CLOSED"
            /\ (OutcomeRecorded /\ IsHealthy(result')
                  /\ hist'.hoSucc < config.SuccessThreshold) =>
                  breaker'.state = "HALF_OPEN" ]_vars

C7_Witness ==
    /\ BreakerOn
    /\ breaker.state = "CLOSED"
    /\ config.SuccessThreshold = 2
    /\ hist.hoSucc = 2
    /\ breaker.failures = 0
    /\ breaker.lastFailureTime # ZeroTime

\* C8: a failure recorded in HALF_OPEN re-opens the breaker and stamps the
\* state change with the time of that failure, and every request that
\* reaches the OPEN breaker before a full timeout has elapsed since its last
\* recorded failure is rejected without running the executor.
C8_HalfOpenFailureReopens ==
    [][ /\ (OutcomeRecorded /\ breaker.state = "HALF_OPEN"
              /\ ~IsHealthy(result')) =>
              /\ breaker'.state = "OPEN"
              /\ breaker'.lastStateChange = now
        /\ (BreakerCalled /\ breaker.state = "OPEN"
              /\ now - hist.failedAt < config.Timeout) =>
              /\ breaker'.state = "OPEN"
              /\ tick'.rejected
              /\ tick'.exec = tick.exec
              /\ pc' # "check" ]_vars

C8_Witness ==
    /\ BreakerOn
    /\ hist.reopens >= 1
    /\ breaker.state = "OPEN"
    /\ breaker.lastStateChange = hist.failedAt
    /\ breaker.lastStateChange > 0
    /\ tick.rejected
    /\ tick.exec = 0

\* C9: in CLOSED a success sets failures to 0 and a failure adds one, the
\* breaker opening exactly when failures >= max_failures; so it leaves CLOSED
\* only after max_failures failures in a row.
C9_ClosedCounting ==
    [][ (OutcomeRecorded /\ breaker.state = "CLOSED") =>
            IF IsHealthy(result')
            THEN /\ breaker'.failures = 0
                 /\ breaker'.state = "CLOSED"
            ELSE /\ breaker'.failures = breaker.failures + 1
                 /\ breaker'.state \in {"CLOSED", "OPEN"}
                 /\ (breaker'.state = "OPEN")
                      <=> (breaker'.failures >= config.MaxFailures)
                 /\ breaker'.state = "OPEN" =>
                      hist'.streak >= config.MaxFailures ]_vars

C9_Witness ==
    /\ BreakerOn
    /\ breaker.state = "OPEN"
    /\ config.MaxFailures = 2
    /\ hist.reopens = 0
    /\ breaker.successes >= 1
    /\ hist.streak = 2
    /\ breaker.failures = 2

\* C10: whatever retry.attempts is, a probe occurrence the breaker does not
\* reject runs the executor at least once and at most max(1, attempts)
\* times, and no attempt follows a healthy result.
C10_ExecutorBounds ==
    /\ tick.exec <= Max(1, check.Attempts)
    /\ (pc = "store" /\ (tick.calls = 0 \/ tick.admitted)) => tick.exec >= 1
    /\ (tick.exec >= 1 /\ IsHealthy(result)) =>
          pc \notin {"sleep", "loop", "check"}

\* C10, restricted to the validated range attempts >= 0
C10_NonNegativeAttempts == check.Attempts >= 0 => C10_ExecutorBounds

\* C11: an occurrence that finds the context cancelled before its probe
\* starts, in the rate limiter's wait or in a retry delay, ends without a
\* result: it stores nothing, hands nothing to the notifier and publishes
\* nothing.
C11_CancelledYieldsNoResult ==
    [][ (cancelled /\ pc \in {"wait", "loop", "sleep"}) =>
          /\ pc' \in {"wait", "loop", "sleep", "idle"}
          /\ storage' = storage
          /\ notified' = notified
          /\ Len(resultsChan') <= Len(resultsChan) ]_vars

\* C11, restricted to the validated range attempts >= 0
C11_NonNegativeAttempts ==
    [][ (check.Attempts >= 0 /\ cancelled /\ pc \in {"wait", "loop", "sleep"}) =>
          /\ pc' \in {"wait", "loop", "sleep", "idle"}
          /\ storage' = storage
          /\ notified' = notified
          /\ Len(resultsChan') <= Len(resultsChan) ]_vars

\* C12: a result is stored before it is handed to the notifier, and handed
\* to the notifier before it is published on the results channel.
C12_StoreNotifyPublish ==
    (tick.exec > 0 \/ tick.rejected) =>
        /\ tick.handed > 0 => tick.saves > 0
        /\ tick.sent > 0 => tick.handed > 0

\* C12 with the order of MonitorEndpoint: stored, published, then notified
C12_StorePublishNotify ==
    /\ tick.sent > 0 => tick.saves > 0
    /\ tick.handed > 0 => tick.sent > 0

\* C13: the publish never blocks the monitor goroutine: with a result to
\* publish and the context live, the goroutine can always go on to the
\* notification, however full the channel is and even when nobody reads it.
C13_PublishNeverBlocks ==
    (pc = "send" /\ ~cancelled) => ENABLED (Next /\ pc' = "notify")

\* C13 as MonitorEndpoint does it: the send waits for room in the channel
C13_SendWaitsForRoom ==
    (pc = "send" /\ ~cancelled) =>
        (ENABLED (Next /\ pc' = "notify")
            <=> Len(resultsChan) < ResultsChanCap)

\* C14: no probe occurrence starts while the previous one of the same check
\* is still in flight; a tick that fires meanwhile waits in ticker.C.
C14_NoOverlap ==
    [][ ticks' = ticks + 1 => pc \in {"initial", "idle"} ]_vars

C14_Witness ==
    /\ tickerC
    /\ pc = "check"
    /\ ticks = 2

\* monitor goroutine i of StartMonitoring is running
Running(i) == monitor[i].pc \notin {"off", "done"}

\* two of the checks given to StartMonitoring have the same name
DuplicateNames ==
    \E i, j \in 1..NumChecks : i # j /\ checks[i].Name = checks[j].Name

\* C15: no two monitor tasks run for one check name, and StartMonitoring
\* given two checks of the same name reports an error.
C15_OneTaskPerName ==
    /\ \A i, j \in 1..NumChecks :
         (i # j /\ checks[i].Name = checks[j].Name) =>
             ~(Running(i) /\ Running(j))
    /\ (DuplicateNames /\ returned # "running") => returned = "error"

\* C15 for the inputs whose names are all different
C15_DistinctNames ==
    ~DuplicateNames => C15_OneTaskPerName

\* C16: once the context is cancelled no monitor goroutine calls the checker
\* again, every goroutine exits and StartMonitoring returns, and nothing is
\* sent on a result channel after it is closed: it is closed by the
\* goroutine that sends, as it returns.
C16_GracefulStop ==
    /\ [][ cancelled =>
             \A i \in 1..NumChecks :
                 monitor'[i].pc = "probe" => monitor[i].pc = "probe" ]_vars
    /\ [][ \A i \in 1..NumChecks :
             /\ monitor[i].closed => monitor'[i].ch <= monitor[i].ch
             /\ monitor'[i].closed => monitor'[i].pc = "done" ]_vars
    /\ cancelled ~> (/\ returned = "nil"
                     /\ \A i \in 1..NumChecks : ~Running(i))

C16_Witness ==
    /\ cancelled
    /\ returned = "nil"
    /\ FleetTicks(NumChecks) = MaxFleetTicks
    /\ \A i \in 1..NumChecks : monitor[i].closed

\* the goroutines of ExecuteChecks that ended in state st
WorkersIn(st) == {i \in DOMAIN batch.worker : batch.worker[i] = st}

\* C17: ExecuteChecks returns only when every goroutine has ended; its
\* results are those of the checks that completed, its error is non-nil
\* exactly when some check failed, and the error's components name the
\* failing checks: each supplied check is either one result or one component.
C17_AllAccountedFor ==
    (batch.pc = "returned" /\ batch.checks # <<>>) =>
        /\ WorkersIn("run") = {}
        /\ Len(batch.results) = Cardinality(WorkersIn("ok"))
        /\ Len(batch.err) = Cardinality(WorkersIn("failed"))
        /\ Len(batch.results) + Len(batch.err) = Len(batch.checks)
        /\ \A n \in {"a", "b"} :
             Cardinality({k \in DOMAIN batch.err : batch.err[k].name = n})
               = Cardinality({i \in WorkersIn("failed") :
                                 batch.checks[i].Name = n})

C17_Witness ==
    /\ batch.pc = "returned"
    /\ Len(batch.checks) = 2
    /\ Len(batch.results) = 1
    /\ Len(batch.err) = 1
    /\ batch.err[1].name = "b"

\* C18: a result for a name that arrives less than the cooldown after a
\* notification for that name went out on some channel is suppressed: no
\* channel is attempted for it.
C18_CooldownSuppresses ==
    (call.made /\ call.within) => call.attempted = <<>>

\* C18 for earlier notifications that Notify recorded in lastNotification
C18_AfterRecordedDispatch ==
    [][ \A n \in Names :
          (/\ manager.lastNotification[n] # ZeroTime
           /\ now - manager.lastNotification[n] < manager.config.Cooldown
           /\ call'.made /\ call' # call /\ call'.name = n)
              => call'.attempted = <<>> ]_vars

\* C19: lastNotification changes only in a call of Notify in which at least
\* one channel's Send succeeded; a suppressed call, and a call whose every
\* attempt fails, leave it as it was.
C19_UpdateOnlyOnSuccess ==
    (call.made /\ call.updated) => call.sent # {}

\* C19 for managers with at least one channel enabled
C19_WithSomeChannel ==
    (call.made /\ call.enabled # <<>> /\ call.updated) => call.sent # {}

\* C20: for a result that passes the rule flag and the cooldown, the Send of
\* every enabled channel is called, in the order of Channels, whatever the
\* earlier ones return, and the error returned is nil only if none failed.
C20_NoShortCircuit ==
    (call.made /\ call.attempted # <<>>) =>
        /\ call.attempted = call.enabled
        /\ (call.err = "nil") <=> (Range_(call.attempted) = call.sent)

\* C20 as Notify does it: the channels are called in order up to the first
\* failure, which is the error returned
C20_StopsAtFirstFailure ==
    (call.made /\ call.attempted # <<>>) =>
        LET failed == Range_(call.attempted) \ call.sent
            last == call.attempted[Len(call.attempted)]
        IN  /\ \E k \in 1..Len(call.enabled) :
                   call.attempted = SubSeq(call.enabled, 1, k)
            /\ failed \subseteq {last}
            /\ failed = {} => call.attempted = call.enabled
            /\ call.err = (IF failed = {} THEN "nil" ELSE last)

\* the rule flag a status is said to map to
RuleFlag(cfg, st) ==
    CASE st = "UP" -> cfg.OnSuccess
      [] st \in {"DOWN", "ERROR", "WARNING"} -> cfg.OnFailure
      [] st = "SLOW" -> cfg.OnSlowResponse

\* C21: a result is dispatched only if the rule flag mapped from its status
\* (UP: on_success; DOWN, ERROR, WARNING: on_failure; SLOW:
\* on_slow_response) is enabled: with the flag disabled the result is
\* ignored and no channel is called, with the flag enabled and the cooldown
\* over it is not ignored.
C21_FlagDecides ==
    call.made =>
        LET flag == RuleFlag(manager.config, call.status)
        IN  /\ ~flag => (call.ignored /\ call.attempted = <<>>)
            /\ (flag /\ call.cooled) => ~call.ignored

\* C21 for the statuses shouldNotify has a case for
C21_UpDownSlow ==
    (call.made /\ call.status \in {"UP", "DOWN", "SLOW"}) =>
        LET flag == RuleFlag(manager.config, call.status)
        IN  /\ ~flag => (call.ignored /\ call.attempted = <<>>)
            /\ (flag /\ call.cooled) => ~call.ignored

\* C22: an UP result for a name whose previous result was not healthy is
\* notified when on_recovery is enabled, whatever on_success is.
C22_RecoveryNotifies ==
    (call.made /\ call.recovery /\ manager.config.OnRecovery /\ call.cooled)
        => ~call.ignored

\* C23: the check and the update of lastNotification[name] are serialized
\* per name: whatever way concurrent calls of Notify for one name
\* interleave, no two dispatches for that name are less than the cooldown
\* apart.
C23_OneDispatchPerWindow ==
    \A n \in Names :
        \A i, j \in DOMAIN call.dispatched[n] :
            i < j => call.dispatched[n][j] - call.dispatched[n][i]
                        >= manager.config.Cooldown

\* the ids of the records of a store, in order
IDs(m) == [i \in DOMAIN m.results |-> m.results[i].ID]

\* C24: ids are monotone per store and every SaveResult yields a new id:
\* after any sequence of SaveResult and CleanupOldData no two records share
\* an id, and a record just saved has an id larger than that of every
\* record saved earlier that is still in the store.
C24_MonotoneIds ==
    /\ \A i, j \in DOMAIN memory.results :
          i < j => memory.results[i].ID # memory.results[j].ID
    /\ journal.op = "save" =>
          \A i \in 1..(Len(memory.results) - 1) :
              memory.results[i].ID < memory.results[Len(memory.results)].ID

\* C24 as long as CleanupOldData has removed nothing: the ids are 1..len
C24_BeforeCleanup ==
    journal.removed = 0 => \A i \in DOMAIN memory.results : IDs(memory)[i] = i

\* the results held by a store, in order
Seqs(m) == [i \in DOMAIN m.results |-> m.results[i].seq]

C26_CleanupExact ==
    journal.op = "cleanup" =>
        LET Recent(r) == r.CreatedAt >= journal.at - journal.olderThan
        IN  /\ memory.results = SelectSeq(journal.before.results, Recent)
            /\ memory.services = journal.before.services

\* a cleanup removed some records and kept one created at the cutoff
C26_Witness ==
    /\ journal.op = "cleanup"
    /\ Len(memory.results) < Len(journal.before.results)
    /\ memory.results # <<>>
    /\ memory.results[1].CreatedAt = journal.at - journal.olderThan
    /\ \E n \in Names : memory.services[n] # NoService

\* C27: Close flushes: every result whose SaveResult returned before Close
\* returned is in a store constructed afterwards on the same path.
C27_CloseFlushes ==
    (journal.stop = "nil" /\ journal.reopened) =>
        \A q \in journal.saved :
            \E i \in DOMAIN memory.results : memory.results[i].seq = q

\* C27 when the auto-save worker was not inside saveToFile at the call of
\* Close or after it
C27_WithoutWorker ==
    (journal.stop = "nil" /\ journal.reopened /\ ~journal.raced) =>
        \A q \in journal.saved :
            \E i \in DOMAIN memory.results : memory.results[i].seq = q

\* C28: Stop always succeeds: in every state it cancels the context and
\* returns nil, a failure to close the storage being logged only.
C28_StopSucceeds ==
    /\ journal.stop # "none" => cancelled
    /\ journal.stop # "error"

\* C28, the part that holds: Stop cancels the context in every case
C28_StopCancels ==
    journal.stop # "none" => cancelled

\* the write of the current probe occurrence failed
WriteLost == tick.saves > tick.stored

\* C29: a storage write failure neither changes the outcome of the probe
\* nor stalls the pipeline: ExecuteCheck returns the result unchanged and
\* no error, the result is published and handed to the notifier as any
\* other, and the task takes its next tick.
C29_WriteFailureHarmless ==
    /\ [][ (pc = "store" /\ pc' # "store" /\ storage' = storage) =>
             (result' = result /\ pc' = "send") ]_vars
    /\ [][ (WriteLost /\ pc = "send" /\ pc' # "send" /\ ~cancelled) =>
             (pc' = "notify" /\ resultsChan' = Append(resultsChan, result)) ]_vars
    /\ [][ (WriteLost /\ pc = "notify" /\ pc' # "notify") =>
             (pc' = "idle" /\ notified' = Append(notified, result)) ]_vars
    /\ []( (WriteLost /\ pc = "send" /\ ~cancelled) =>
             ENABLED (Send /\ pc' = "notify") )
    /\ []( (WriteLost /\ pc = "idle" /\ tickerC /\ ticks < MaxTicks) =>
             ENABLED (Tick /\ ticks' = ticks + 1) )

\* after a probe whose write failed and whose result was published and
\* notified, the next probe is being made
C29_Witness ==
    /\ hist.lost = 1
    /\ storage = <<>>
    /\ Len(notified) = 1
    /\ notified[1].Status = "DOWN"
    /\ ticks = 2
    /\ pc = "check"

\* a response was checked: whether its validations passed, whether it took
\* longer than response_time_max
Checked == http.Status # "none" /\ http.resp.outcome = "response"
Valid == validateResponse(http.resp, http.expected) = "nil"
Overrun ==
    /\ http.expected.ResponseTimeMax > 0
    /\ http.resp.duration > http.expected.ResponseTimeMax

\* C30: when the status-code, body-content, content-type or body-size
\* validation fails the result is DOWN whatever the response time; SLOW is
\* returned only when all validations pass and the response time exceeds
\* response_time_max, UP only when all pass and it does not.
C30_Classification ==
    Checked =>
        /\ ~Valid => http.Status = "DOWN"
        /\ http.Status = "SLOW" => (Valid /\ Overrun)
        /\ http.Status = "UP" => (Valid /\ ~Overrun)

\* C30 as Check does it: an overrun makes the result SLOW whether the
\* validations passed or not
C30_OverrunFirst ==
    Checked =>
        http.Status = (IF Overrun THEN "SLOW"
                       ELSE IF Valid THEN "UP" ELSE "DOWN")

\* the certificate arrived and validateCertificate accepted it
CertAccepted == ssl.Status \in {"UP", "SLOW"}

\* d equals a name of the certificate, or ends with "." followed by X for
\* an entry "*.X" of the certificate
Covered(d) ==
    \/ d \in validDomains(ssl.certInfo)
    \/ \E v \in validDomains(ssl.certInfo) :
           /\ HasPrefix(v, <<"*", ".">>)
           /\ HasSuffix(d, <<".">> \o TrimPrefix(v, <<"*", ".">>))

\* C31: an expected domain passes the domain check only if it equals the
\* common name or a DNS name, or ends with "." followed by X for some
\* certificate entry "*.X"; with any other expected domain the check of a
\* fetched certificate answers WARNING.
C31_DomainCovered ==
    CertAccepted => \A d \in ssl.expected.CertValidDomains : Covered(d)

\* C32: the periodic cleanup task is cancelled on shutdown: once Stop or
\* Close was called (or the application's context was cancelled), the task
\* issues no further call of CleanupOldData.
C32_NoCleanupAfterShutdown == cleaner.late = 0

\* this step is a call of Execute that beforeRequest rejected
Rejection == requests'.rejected = requests.rejected + 1

\* C33: a request rejected because the breaker is OPEN does not invoke the
\* wrapped function and leaves the breaker's state, failures, successes and
\* consecutive successes as they were.
C33_RejectionChangesNothing ==
    [][Rejection =>
          /\ breaker.state = "OPEN"
          /\ requests'.invoked = requests.invoked
          /\ breaker'.state = breaker.state
          /\ breaker'.failures = breaker.failures
          /\ breaker'.successes = breaker.successes
          /\ breaker'.consecutiveSuccesses = breaker.consecutiveSuccesses]_vars

\* a call was rejected after the function had failed and succeeded before
C33_Witness ==
    /\ requests # <<>>
    /\ requests.rejected > 0
    /\ breaker.failures > 0
    /\ breaker.successes > 0

\* C34: on an enabled breaker with max_failures >= 1 and success_threshold
\* >= 1, whatever the interleaving of concurrent calls of Execute and of
\* Reset, the state is CLOSED, OPEN or HALF_OPEN, and while it is CLOSED
\* the failure count is below max_failures.
C34_ClosedBelowLimit ==
    (requests # <<>> /\ config.Enabled) =>
        /\ breaker.state \in {"CLOSED", "OPEN", "HALF_OPEN"}
        /\ breaker.state = "CLOSED" =>
               breaker.failures < config.MaxFailures

\* every caller is inside the wrapped function while the breaker is CLOSED
\* with a failure counted since a Reset (no success is on record and the
\* state was last changed after the construction)
C34_Witness ==
    /\ requests # <<>>
    /\ config.Enabled
    /\ \A g \in Callers : requests.of[g].pc = "fn"
    /\ breaker.state = "CLOSED"
    /\ breaker.failures > 0
    /\ breaker.successes = 0
    /\ breaker.lastStateChange > 0

\* this step records the outcome of caller g, admitted before the breaker
\* last went from OPEN to HALF_OPEN, while the breaker is HALF_OPEN
StaleOutcome(g) ==
    /\ requests.of[g].pc = "fn"
    /\ requests'.of[g].pc = "idle"
    /\ requests.of[g].stale
    /\ breaker.state = "HALF_OPEN"

\* C35: the outcome of a request admitted before the most recent OPEN to
\* HALF_OPEN transition, recorded while the breaker is HALF_OPEN, neither
\* counts toward success_threshold nor sends the breaker back to OPEN (nor
\* closes it).
C35_StaleOutcomeIgnored ==
    [][\A g \in Callers :
          StaleOutcome(g) =>
              /\ breaker'.state = "HALF_OPEN"
              /\ breaker'.consecutiveSuccesses
                    <= breaker.consecutiveSuccesses]_vars

\* C36: the snapshot is atomic: under every interleaving of SaveResult, the
\* auto-save and Close, the file at the snapshot path is absent or holds
\* the results and the services the store had at one single instant.
C36_SnapshotAtomic ==
    memory.path # "" => (file.f = NoFile \/ file.f \in journal.held)

\* C37: Close may be called more than once on the in-memory store: no call
\* panics, and once the first call has returned the auto-save worker has
\* stopped.
C37_CloseIdempotent ==
    /\ journal.again # "panic"
    /\ journal.stop \in {"nil", "error"} =>
           savers["worker"].pc \in {"none", "returned"}

\* the records a statistics answer was computed over; none on an error
SelectedBy(a) == IF a.err THEN {} ELSE a.selected

\* C38: the in-memory and the SQLite store are interchangeable: after the
\* same calls of SaveResult, GetServiceHistory(name, since, limit) and
\* GetServiceStats(name, since) select the same records in both, also when
\* a record's timestamp equals since.
C38_StoresAgree ==
    (query # <<>> /\ query.asked) =>
        /\ Range_(query.history.memory) = Range_(query.history.sqlite)
        /\ SelectedBy(query.stats.memory) = SelectedBy(query.stats.sqlite)

\* C39: a SLOW result is counted as successful in the stored ServiceStats:
\* successful is the number of healthy results in the window, total =
\* successful + failed, and the uptime is successful / total * 100.
C39_HealthyCountsAsSuccess ==
    (query # <<>> /\ query.asked /\ ~query.stats.memory.err) =>
        LET st == query.stats.memory
            healthy == {r \in st.selected : r.Status \in HealthyStatuses}
        IN  /\ st.SuccessfulChecks = Cardinality(healthy)
            /\ st.TotalChecks = st.SuccessfulChecks + st.FailedChecks
            /\ st.UptimePercent =
                  (Cardinality(healthy) * 100) \div st.TotalChecks

\* C40: for each endpoint key, concurrent first-use lookups all obtain the
\* same circuit breaker and the same rate-limiter entry: while the key is
\* not removed at most one entry is created for it, and every goroutine
\* that holds an instance holds the one in the map.
C40_OneEntryPerKey ==
    /\ \A c \in Cells : lookups.fresh[c] <= 1
    /\ \A g \in Lookers :
           (lookups.of[g].pc = "holding" /\ ~lookups.of[g].stale) =>
               lookups.of[g].got = lookups.entry[lookups.of[g].cell]

\* two goroutines missed the same key under the read lock; one created the
\* entry and the other found it on the second look
C40_Witness ==
    /\ lookups # <<>>
    /\ \E g, h \in Lookers :
           /\ lookups.of[g].pc = "holding"
           /\ lookups.of[h].pc = "holding"
           /\ lookups.of[g].cell = lookups.of[h].cell
           /\ lookups.of[g].via = "create"
           /\ lookups.of[h].via = "recheck"
           /\ ~lookups.of[g].stale
           /\ ~lookups.of[h].stale

====
